---- MODULE Spec2Model ----
(***************************************************************************)
(* Model of the orchestrator dashboard (src/dashboard/server.py): the task *)
(* lifecycle store (one file per task in one of five queue directories),   *)
(* the launch coordinator and the tmux sessions it creates.                *)
(*                                                                         *)
(* Text is modelled at the level the handlers' regular expressions see it: *)
(* a document is a sequence of lines, a line a sequence of tokens (maximal *)
(* runs of non-blank characters), a token a string.  Blank lines and the   *)
(* amount of blank space between tokens are not recorded, since no regular *)
(* expression of the handlers depends on them; line breaks are, since      *)
(* "\s*" crosses them and "[ \t]*" and "." do not.                         *)
(***************************************************************************)
EXTENDS Integers, Sequences, FiniteSets, TLC

(***************************************************************************)
(* Bounds of the model.                                                    *)
(***************************************************************************)
\* the requests handled, one in each tick of the clock
MaxSteps == 4
\* the clock counts ticks; a second has TicksPerSecond of them
TicksPerSecond == 2
SecondsPerDay == 1
\* task files on disk, over all queue directories
MaxFiles == 2

(***************************************************************************)
(* Characters and strings.                                                 *)
(***************************************************************************)
UpperChars == "ABCDEFGHIJKLMNOPQRSTUVWXYZ"
LowerChars == "abcdefghijklmnopqrstuvwxyz"
DigitChars == "0123456789"

CharAt(s, i) == SubSeq(s, i, i)

CharsOf(chars) == {CharAt(chars, i) : i \in 1..Len(chars)}

UpperSet == CharsOf(UpperChars)
LowerSet == CharsOf(LowerChars)
DigitSet == CharsOf(DigitChars)

InChars(c, chars) == c \in CharsOf(chars)

\* str.lower() / str.upper() of one character
ToLower == [c \in UpperSet |-> CharAt(LowerChars, CHOOSE i \in 1..26 : CharAt(UpperChars, i) = c)]
ToUpper == [c \in LowerSet |-> CharAt(UpperChars, CHOOSE i \in 1..26 : CharAt(LowerChars, i) = c)]

LowerChar(c) == IF c \in UpperSet THEN ToLower[c] ELSE c
UpperChar(c) == IF c \in LowerSet THEN ToUpper[c] ELSE c

RECURSIVE MapChars(_, _)
MapChars(s, up) ==
    IF Len(s) = 0 THEN ""
    ELSE (IF up THEN UpperChar(CharAt(s, 1)) ELSE LowerChar(CharAt(s, 1)))
         \o MapChars(SubSeq(s, 2, Len(s)), up)

Upper(s) == MapChars(s, TRUE)
Lower(s) == MapChars(s, FALSE)

\* \w of the re module, on ASCII
IsWordChar(c) == c \in UpperSet \/ c \in LowerSet \/ c \in DigitSet \/ c = "_"

IsBlank(c) == c = " "

RECURSIVE LStrip(_)
LStrip(s) == IF Len(s) > 0 /\ IsBlank(CharAt(s, 1)) THEN LStrip(SubSeq(s, 2, Len(s))) ELSE s

RECURSIVE RStrip(_)
RStrip(s) == IF Len(s) > 0 /\ IsBlank(CharAt(s, Len(s))) THEN RStrip(SubSeq(s, 1, Len(s) - 1)) ELSE s

\* str.strip()
Strip(s) == RStrip(LStrip(s))

StartsWith(s, p) == Len(s) >= Len(p) /\ SubSeq(s, 1, Len(p)) = p

\* " ".join(tokens)
RECURSIVE JoinTokens(_)
JoinTokens(toks) ==
    IF Len(toks) = 0 THEN ""
    ELSE IF Len(toks) = 1 THEN toks[1]
    ELSE toks[1] \o " " \o JoinTokens(Tail(toks))

\* str.split() on blanks: the tokens of a string
RECURSIVE Tokenize(_)
Tokenize(s) ==
    LET t == LStrip(s)
        n == IF \E i \in 1..Len(t) : IsBlank(CharAt(t, i))
             THEN (CHOOSE i \in 1..Len(t) :
                      /\ IsBlank(CharAt(t, i))
                      /\ \A j \in 1..i-1 : ~IsBlank(CharAt(t, j))) - 1
             ELSE Len(t)
    IN  IF Len(t) = 0 THEN << >>
        ELSE <<SubSeq(t, 1, n)>> \o Tokenize(SubSeq(t, n + 1, Len(t)))

(***************************************************************************)
(* The clock.  datetime.now() is read from clock; a second has             *)
(* TicksPerSecond ticks and a day SecondsPerDay seconds.                   *)
(***************************************************************************)
SecondOf(t) == t \div TicksPerSecond
DayOf(t) == SecondOf(t) \div SecondsPerDay

\* the dashboard starts in the last tick of a second
FirstTick == TicksPerSecond - 1

\* datetime.now().strftime("%Y%m%d-%H%M%S")
Timestamp(t) ==
    "2024010" \o ToString(1 + DayOf(t)) \o "-00000" \o ToString(SecondOf(t) % SecondsPerDay)

\* datetime.now().date().isoformat()
IsoDate(t) == "2024-01-0" \o ToString(1 + DayOf(t))

(***************************************************************************)
(* generate_task_id and slugify(title, max_length=30) of python-slugify,   *)
(* on ASCII text without quotes: lower-case, every run of characters       *)
(* outside [-a-z0-9] becomes one "-", dashes are stripped from both ends,  *)
(* the result is cut to max_length and stripped again.                     *)
(***************************************************************************)
SlugMaxLength == 30

SlugChar(c) ==
    LET l == LowerChar(c)
    IN  IF l \in LowerSet \/ l \in DigitSet \/ l = "-" THEN l ELSE "-"

RECURSIVE SlugMap(_)
SlugMap(s) == IF Len(s) = 0 THEN "" ELSE SlugChar(CharAt(s, 1)) \o SlugMap(SubSeq(s, 2, Len(s)))

RECURSIVE CollapseDashes(_)
CollapseDashes(s) ==
    IF Len(s) < 2 THEN s
    ELSE IF SubSeq(s, 1, 2) = "--" THEN CollapseDashes(SubSeq(s, 2, Len(s)))
    ELSE CharAt(s, 1) \o CollapseDashes(SubSeq(s, 2, Len(s)))

RECURSIVE StripDashes(_)
StripDashes(s) ==
    IF Len(s) > 0 /\ CharAt(s, 1) = "-" THEN StripDashes(SubSeq(s, 2, Len(s)))
    ELSE IF Len(s) > 0 /\ CharAt(s, Len(s)) = "-" THEN StripDashes(SubSeq(s, 1, Len(s) - 1))
    ELSE s

Slugify(text) ==
    LET clean == StripDashes(CollapseDashes(SlugMap(text)))
    IN  IF Len(clean) < SlugMaxLength THEN clean
        ELSE StripDashes(SubSeq(clean, 1, SlugMaxLength))

\* the task id generated for a title at clock t
GenerateTaskIdAt(title, t) ==
    LET slug == Slugify(IF title = "" THEN "task" ELSE title)
    IN  "task-" \o Timestamp(t) \o "-" \o (IF slug = "" THEN "task" ELSE slug)

(***************************************************************************)
(* _normalize_priority                                                     *)
(***************************************************************************)
Priorities == {"P0", "P1", "P2", "P3"}

\* \b between positions i and i+1 of s
WordBoundary(s, i) ==
    (i >= 1 /\ i <= Len(s) /\ IsWordChar(CharAt(s, i)))
        # (i + 1 >= 1 /\ i + 1 <= Len(s) /\ IsWordChar(CharAt(s, i + 1)))

\* re.search(r"\bP([0-3])\b", upper): the positions of P where it matches
PDigitMatches(s) ==
    {i \in 1..Len(s) - 1 :
        /\ CharAt(s, i) = "P"
        /\ InChars(CharAt(s, i + 1), "0123")
        /\ WordBoundary(s, i - 1)
        /\ WordBoundary(s, i + 1)}

\* re.search(r"\b([0-3])\b", upper)
DigitMatches(s) ==
    {i \in 1..Len(s) :
        /\ InChars(CharAt(s, i), "0123")
        /\ WordBoundary(s, i - 1)
        /\ WordBoundary(s, i)}

MinOf(S) == CHOOSE x \in S : \A y \in S : x <= y

\* a priority of None is the empty string: both are falsy in "priority or ''"
NormalizePriority(priority, default) ==
    LET text == Strip(priority)
        upper == Upper(text)
    IN  IF text = "" THEN default
        ELSE IF upper \in Priorities THEN upper
        ELSE IF PDigitMatches(upper) # {} THEN "P" \o CharAt(upper, MinOf(PDigitMatches(upper)) + 1)
        ELSE IF DigitMatches(upper) # {} THEN "P" \o CharAt(upper, MinOf(DigitMatches(upper)))
        ELSE default

(***************************************************************************)
(* _derive_title_from_prompt.  The character class of its regular          *)
(* expression, written [#>*\\-\\s] in a raw string, holds # > * \ and s.   *)
(***************************************************************************)
TitleMaxLength == 80
TitleCutLength == 77

TitleStripChars == "#>*\\s"

RECURSIVE StripLeadingClass(_)
StripLeadingClass(s) ==
    IF Len(s) > 0 /\ InChars(CharAt(s, 1), TitleStripChars)
    THEN StripLeadingClass(SubSeq(s, 2, Len(s)))
    ELSE s

RECURSIVE DeriveTitleFromPrompt(_)
DeriveTitleFromPrompt(prompt) ==
    IF Len(prompt) = 0 THEN "Quick task"
    ELSE LET line == Strip(StripLeadingClass(JoinTokens(prompt[1])))
         IN  IF line = "" THEN DeriveTitleFromPrompt(Tail(prompt))
             ELSE IF Len(line) > TitleMaxLength
                  THEN RStrip(SubSeq(line, 1, TitleCutLength)) \o "..."
                  ELSE line

(***************************************************************************)
(* Task specification documents.                                           *)
(***************************************************************************)
\* the bold label of a field: **Field:**
FieldLabel(field) == "**" \o field \o ":**"

\* the (line, token) positions of a document, as a set
TokenPositions(content) ==
    UNION {{<<i, j>> : j \in 1..Len(content[i])} : i \in 1..Len(content)}

PosBefore(p, q) == p[1] < q[1] \/ (p[1] = q[1] /\ p[2] < q[2])

\* _extract_field: re.search(r"\*\*Field:\*\*[ \t]*(.*)") takes the rest of the
\* line of the first label, stripped.  The result None is the empty string
\* here: every caller reads the result through "or".
ExtractField(content, field) ==
    LET hits == {p \in TokenPositions(content) : content[p[1]][p[2]] = FieldLabel(field)}
    IN  IF hits = {} THEN ""
        ELSE LET p == CHOOSE h \in hits : \A o \in hits : o = h \/ PosBefore(h, o)
             IN  JoinTokens(SubSeq(content[p[1]], p[2] + 1, Len(content[p[1]])))

\* whether a line begins "# Task:"
IsTitleLine(line) == Len(line) >= 2 /\ line[1] = "#" /\ StartsWith(line[2], "Task:")

\* the text after "# Task:" on a title line
TitleLineRest(line) ==
    LET first == SubSeq(line[2], 6, Len(line[2]))
    IN  JoinTokens((IF first = "" THEN << >> ELSE <<first>>) \o SubSeq(line, 3, Len(line)))

\* re.search(r"^# Task:\s*(.+)", content, re.MULTILINE), group 1 stripped: the
\* rest of the first title line or, when that is empty, the next line that has
\* text ("\s*" crosses the line break).  "" when there is no match.
TitleMatch(content) ==
    LET ts == {i \in 1..Len(content) : IsTitleLine(content[i])}
    IN  IF ts = {} THEN ""
        ELSE LET i == MinOf(ts)
                 later == {k \in i+1..Len(content) : Len(content[k]) > 0}
             IN  IF TitleLineRest(content[i]) # "" THEN TitleLineRest(content[i])
                 ELSE IF later = {} THEN ""
                 ELSE JoinTokens(content[MinOf(later)])

\* the replacement of the token that follows a label: (P[0-3]|\S+) prefers the
\* two characters P[0-3] and leaves the rest of the token in place
ReplaceValue(tok, new, keepRest) ==
    IF keepRest /\ Len(tok) >= 2 /\ CharAt(tok, 1) = "P" /\ InChars(CharAt(tok, 2), "0123")
    THEN new \o SubSeq(tok, 3, Len(tok))
    ELSE new

\* re.subn(r"(label\s*)(value)", ...) over the tokens of one line; armed says that
\* the label was the last token before this line
RECURSIVE SubnTokens(_, _, _, _, _)
SubnTokens(toks, label, new, keepRest, armed) ==
    IF Len(toks) = 0 THEN [out |-> << >>, armed |-> armed, count |-> 0]
    ELSE LET tok == Head(toks)
             rest == SubnTokens(Tail(toks), label, new, keepRest, (~armed) /\ tok = label)
         IN  [out |-> <<IF armed THEN ReplaceValue(tok, new, keepRest) ELSE tok>> \o rest.out,
              armed |-> rest.armed,
              count |-> rest.count + (IF armed THEN 1 ELSE 0)]

RECURSIVE SubnLines(_, _, _, _, _)
SubnLines(lines, label, new, keepRest, armed) ==
    IF Len(lines) = 0 THEN [content |-> << >>, count |-> 0]
    ELSE LET here == SubnTokens(Head(lines), label, new, keepRest, armed)
             rest == SubnLines(Tail(lines), label, new, keepRest, here.armed)
         IN  [content |-> <<here.out>> \o rest.content, count |-> here.count + rest.count]

\* re.subn(r"(\*\*Field:\*\*\s*)(\S+)", new): every label's next token, on the
\* label's line or a later one, is replaced
SubnField(content, field, new, keepRest) ==
    SubnLines(content, FieldLabel(field), new, keepRest, FALSE)

\* lines without text are blank space: they are not recorded
RECURSIVE DropEmptyLines(_)
DropEmptyLines(lines) ==
    IF Len(lines) = 0 THEN << >>
    ELSE (IF Len(Head(lines)) = 0 THEN << >> ELSE <<Head(lines)>>) \o DropEmptyLines(Tail(lines))

\* the document api_create_quick_task writes
QuickSpecContent(title, task_id, created, priority, agent, model, project, working_dir, prompt) ==
    << <<"#", "Task:">> \o Tokenize(title),
       <<"**ID:**", task_id>>,
       <<"**Created:**", created>>,
       <<"**Priority:**", priority>>,
       <<"**Agent:**">> \o Tokenize(agent),
       <<"**Model:**">> \o Tokenize(model),
       <<"**Project:**">> \o Tokenize(project),
       <<"**Working", "Directory:**">> \o Tokenize(working_dir),
       <<"---">>,
       <<"##", "Objective">> >>
    \o DropEmptyLines(prompt)
    \o << <<"---">>,
          <<"##", "Completion", "Criteria">>,
          <<"-", "Task", "objective", "is", "complete">>,
          <<"-", "Changes", "committed", "with", "git", "proof", "(if", "code", "changes)">> >>

(***************************************************************************)
(* Session names and the launch command.                                   *)
(***************************************************************************)
\* the positions of the dashes of a string
DashPositions(s) == {i \in 1..Len(s) : CharAt(s, i) = "-"}

\* _derive_session_id: the first three dash-delimited components
DeriveSessionId(task_id) ==
    LET dashes == DashPositions(task_id)
    IN  IF Cardinality(dashes) >= 3
        THEN LET third == CHOOSE i \in dashes : Cardinality({j \in dashes : j < i}) = 2
             IN  SubSeq(task_id, 1, third - 1)
        ELSE task_id

TmuxNameMaxLength == 64

SafeChar(c) == IF IsWordChar(c) \/ c = "-" THEN c ELSE "-"

RECURSIVE SafeMap(_)
SafeMap(s) == IF Len(s) = 0 THEN "" ELSE SafeChar(CharAt(s, 1)) \o SafeMap(SubSeq(s, 2, Len(s)))

\* a _safe_tmux_session_name that does not cut the name
SafeTmuxSessionNameUncut(session_id) == SafeMap(session_id)

\* _safe_tmux_session_name
SafeTmuxSessionName(session_id) ==
    LET sanitized == SafeMap(session_id)
    IN  IF Len(sanitized) > TmuxNameMaxLength THEN SubSeq(sanitized, 1, TmuxNameMaxLength)
        ELSE sanitized

KnownAgents == {"codex", "claude", "gemini", "human"}

\* a _build_launch_command that falls through to a default command
BuildLaunchCommandNeverRaises(agent) == FALSE

\* _build_launch_command: raises ValueError for an agent it does not know
BuildLaunchCommandRaises(agent) == agent \notin KnownAgents

\* DEFAULT_MODELS of _launch_task
DefaultModel(agent) ==
    IF agent = "codex" THEN "o3"
    ELSE IF agent = "claude" THEN "claude-sonnet-4-20250514"
    ELSE IF agent = "gemini" THEN "gemini-2.5-pro"
    ELSE ""

(***************************************************************************)
(* The queue directories: QUEUE_ROOT/<state>/<task_id>.md.                 *)
(***************************************************************************)
\* valid_states of api_move_task, in the order every handler probes them
States == <<"pending", "in-progress", "blocked", "completed", "learning">>

StateSet == {States[i] : i \in 1..Len(States)}

\* a directory is a map from task ids to files
Put(dir, id, file) == [x \in DOMAIN dir \cup {id} |-> IF x = id THEN file ELSE dir[x]]
Remove(dir, id) == [x \in DOMAIN dir \ {id} |-> dir[x]]
EmptyDir == [x \in {} |-> 0]

\* path.exists()
Exists(q, state, id) == id \in DOMAIN q[state]

\* the states that hold a file of the task
StatesOf(q, id) == {s \in StateSet : Exists(q, s, id)}

\* the first state, in probing order, that holds the task
FirstState(q, id) == States[MinOf({i \in 1..Len(States) : Exists(q, States[i], id)})]

\* path.write_text(content): creates or overwrites, and sets the modification time
WriteText(q, state, id, content, t) ==
    [q EXCEPT ![state] = Put(@, id, [content |-> content, mtime |-> t])]

\* path.unlink()
Unlink(q, state, id) == [q EXCEPT ![state] = Remove(@, id)]

\* shutil.move(src, dst) within one file system: os.rename, which replaces a
\* file at the destination and keeps the modification time
ShutilMove(q, src, dst, id) ==
    [q EXCEPT ![src] = Remove(@, id), ![dst] = Put(@, id, q[src][id])]

\* path.touch()
Touch(q, state, id, t) == [q EXCEPT ![state][id].mtime = t]

AllIds(q) == UNION {DOMAIN q[s] : s \in StateSet}

FileCount(q) == Cardinality({<<s, id>> \in StateSet \X AllIds(q) : Exists(q, s, id)})

(***************************************************************************)
(* The state.                                                              *)
(***************************************************************************)
VARIABLES
    queue,      \* queue[state][task_id] = [content, mtime]: the task files
    tmux,       \* the names of the tmux sessions that exist
    clock,      \* the time, in ticks
    resp,       \* the response to the request handled last
    arrival,    \* arrival[task_id]: the tick a move brought the task's file into
                \* completed, while the file has not been written or moved since
    args,       \* the arguments of a call of a function studied on its own
    returned,   \* what that call returned
    status_dir, \* status_dir[name]: the inode of a file of the status directory
    inodes,     \* inodes[n]: what the file with inode n holds
    calls       \* calls[c]: how far the handler of the caller c has come

vars == <<queue, tmux, clock, resp, arrival, args, returned, status_dir, inodes, calls>>

\* the status directory without a file, and no handler on its way
NoFiles == <<>>
NoCalls == <<>>

\* no function is studied on its own
NoCall == [fn |-> "none"]
NoReturn == [called |-> FALSE]

Response(op, id, code, error, info) ==
    [op |-> op, id |-> id, code |-> code, error |-> error, info |-> info]

Init ==
    /\ queue = [s \in StateSet |-> EmptyDir]
    /\ tmux = {}
    /\ clock = FirstTick
    /\ resp = Response("none", "", 0, "", "")
    /\ arrival = EmptyDir
    /\ args = NoCall
    /\ returned = NoReturn
    /\ status_dir = NoFiles
    /\ inodes = NoFiles
    /\ calls = NoCalls

(***************************************************************************)
(* _launch_task, as a function of the directories and the sessions: the    *)
(* directories and sessions it leaves and the response it gives.           *)
(***************************************************************************)
LaunchOutcome(q, tm, code, error, model) ==
    [queue |-> q, tmux |-> tm, code |-> code, error |-> error, model |-> model]

\* _launch_task with the checks before the move: a failed launch leaves the
\* file where it was
LaunchTaskValidatingFirst(q, tm, task_id, model_override) ==
    IF ~Exists(q, "pending", task_id) /\ ~Exists(q, "in-progress", task_id)
    THEN LaunchOutcome(q, tm, 404, "Task not found", "")
    ELSE
      LET from == IF Exists(q, "pending", task_id) THEN "pending" ELSE "in-progress"
          content == q[from][task_id].content
          agent == ExtractField(content, "Agent")
          specModel == IF model_override # "" THEN model_override
                       ELSE ExtractField(content, "Model")
          model == IF specModel = "" THEN DefaultModel(agent) ELSE specModel
          tmux_session == SafeTmuxSessionName(DeriveSessionId(task_id))
      IN  IF agent = "" THEN LaunchOutcome(q, tm, 400, "Agent not found in task spec", "")
          ELSE IF BuildLaunchCommandRaises(agent)
               THEN LaunchOutcome(q, tm, 400, "Unknown agent", "")
          ELSE IF tmux_session \in tm
               THEN LaunchOutcome(q, tm, 500, "duplicate session", "")
          ELSE LaunchOutcome(IF from = "pending"
                             THEN ShutilMove(q, "pending", "in-progress", task_id) ELSE q,
                             tm \cup {tmux_session}, 200, "", model)

LaunchTask(q, tm, task_id, model_override) ==
    IF ~Exists(q, "pending", task_id) /\ ~Exists(q, "in-progress", task_id)
    THEN LaunchOutcome(q, tm, 404, "Task not found", "")
    ELSE
      LET q1 == IF Exists(q, "pending", task_id)
                THEN ShutilMove(q, "pending", "in-progress", task_id)
                ELSE q
          content == q1["in-progress"][task_id].content
          agent == ExtractField(content, "Agent")
          specModel == IF model_override # "" THEN model_override
                       ELSE ExtractField(content, "Model")
          model == IF specModel = "" THEN DefaultModel(agent) ELSE specModel
          tmux_session == SafeTmuxSessionName(DeriveSessionId(task_id))
      IN  IF agent = "" THEN LaunchOutcome(q1, tm, 400, "Agent not found in task spec", "")
          ELSE IF BuildLaunchCommandRaises(agent)
               THEN LaunchOutcome(q1, tm, 400, "Unknown agent", "")
          \* tmux new-session -d -s name: fails when the name is taken
          ELSE IF tmux_session \in tm
               THEN LaunchOutcome(q1, tm, 500, "duplicate session", "")
          ELSE LaunchOutcome(q1, tm \cup {tmux_session}, 200, "", model)

\* POST /api/tasks/<task_id>/launch
ApiLaunchTask(task_id, model_override) ==
    LET out == LaunchTask(queue, tmux, task_id, model_override)
    IN  /\ queue' = out.queue
        /\ tmux' = out.tmux
        /\ resp' = Response("launch", task_id, out.code, out.error, "")
        /\ UNCHANGED arrival

(***************************************************************************)
(* Task templates: TASK_TEMPLATES_DIR/<name>.md, read by api_create_task.  *)
(***************************************************************************)
AUTO_FIELDS ==
    {"TASK_ID", "DATE", "AGENT", "MODEL", "PRIORITY", "PROJECT", "SESSION_ID",
     "WORKING_DIR", "COMMIT_MESSAGE"}

\* the templates on disk
Templates ==
    [feature |->
        << <<"#", "Task:", "{{TITLE}}">>,
           <<"**ID:**", "{{TASK_ID}}">>,
           <<"**Created:**", "{{DATE}}">>,
           <<"**Priority:**", "{{PRIORITY}}">>,
           <<"**Agent:**", "{{AGENT}}">>,
           <<"**Model:**", "{{MODEL}}">>,
           <<"**Project:**", "{{PROJECT}}">>,
           <<"##", "Objective">>,
           <<"{{DESCRIPTION}}">> >>]

\* a token {{NAME}} with NAME in [A-Z_]+
IsPlaceholder(tok) ==
    /\ Len(tok) > 4
    /\ SubSeq(tok, 1, 2) = "{{"
    /\ SubSeq(tok, Len(tok) - 1, Len(tok)) = "}}"
    /\ \A i \in 3..Len(tok) - 2 : CharAt(tok, i) \in UpperSet \/ CharAt(tok, i) = "_"

PlaceholderName(tok) == SubSeq(tok, 3, Len(tok) - 2)

\* parse_template_fields: the names of the placeholders of a template
ParseTemplateFields(content) ==
    {PlaceholderName(content[p[1]][p[2]]) :
        p \in {q \in TokenPositions(content) : IsPlaceholder(content[q[1]][q[2]])}}

\* dict.get(key) of a request's fields, "" when the key is absent
FieldGet(fields, key) == IF key \in DOMAIN fields THEN fields[key] ELSE ""

RECURSIVE FillTokens(_, _)
FillTokens(toks, values) ==
    IF Len(toks) = 0 THEN << >>
    ELSE (IF IsPlaceholder(Head(toks)) /\ PlaceholderName(Head(toks)) \in DOMAIN values
          THEN Tokenize(values[PlaceholderName(Head(toks))])
          ELSE <<Head(toks)>>)
         \o FillTokens(Tail(toks), values)

\* fill_template: user values override the automatic ones
FillTemplate(content, auto_values, user_values) ==
    LET values == [k \in DOMAIN auto_values \cup DOMAIN user_values |->
                      IF k \in DOMAIN user_values THEN user_values[k] ELSE auto_values[k]]
    IN  DropEmptyLines([i \in 1..Len(content) |-> FillTokens(content[i], values)])

(***************************************************************************)
(* The handlers that create tasks.                                         *)
(***************************************************************************)
\* after a task file was written: the launch the request asked for
CreatedThenLaunch(op, q, task_id, launch, okCode) ==
    LET out == IF launch THEN LaunchTask(q, tmux, task_id, "")
               ELSE LaunchOutcome(q, tmux, 200, "", "")
    IN  /\ FileCount(out.queue) <= MaxFiles
        /\ queue' = out.queue
        /\ tmux' = out.tmux
        /\ resp' = IF out.code = 200 THEN Response(op, task_id, okCode, "", "")
                   ELSE Response(op, task_id, out.code, out.error, "")
        /\ UNCHANGED arrival

Rejected(op, id, code, error) ==
    /\ resp' = Response(op, id, code, error, "")
    /\ UNCHANGED <<queue, tmux, arrival>>

\* how api_create_task stores the file of a new task
CreateWrite(q, task_id, content, t) == WriteText(q, "pending", task_id, content, t)

\* POST /api/tasks
ApiCreateTask(data) ==
    LET template_name == Strip(data.template)
        title == Strip(FieldGet(data.fields, "TITLE"))
    IN  IF template_name = "" THEN Rejected("create", "", 400, "template is required")
        ELSE IF template_name \notin DOMAIN Templates
             THEN Rejected("create", "", 404, "Unknown template")
        ELSE IF title = ""
             THEN Rejected("create", "", 400, "TITLE is required to generate task id")
        ELSE
          LET content == Templates[template_name]
              missing == {f \in ParseTemplateFields(content) \ AUTO_FIELDS :
                              Strip(FieldGet(data.fields, f)) = ""}
              task_id == GenerateTaskIdAt(title, clock)
              auto_values ==
                  [k \in AUTO_FIELDS |->
                      CASE k = "TASK_ID" -> task_id
                        [] k = "DATE" -> IsoDate(clock)
                        [] k = "AGENT" -> data.agent
                        [] k = "MODEL" -> data.model
                        [] k = "PRIORITY" -> NormalizePriority(data.priority, "P2")
                        [] k = "PROJECT" -> data.project
                        [] k = "SESSION_ID" -> DeriveSessionId(task_id)
                        [] k = "WORKING_DIR" -> "~/projects/orchestration-v2"
                        [] OTHER -> ""]
              filled == FillTemplate(content, auto_values, data.fields)
          IN  IF missing # {} THEN Rejected("create", "", 400, "missing required fields")
              ELSE CreatedThenLaunch("create", CreateWrite(queue, task_id, filled, clock),
                                     task_id, data.launch, 200)

\* how api_create_quick_task stores the file of a new task
QuickWrite(q, task_id, content, t) == WriteText(q, "pending", task_id, content, t)

\* POST /api/tasks/quick
ApiCreateQuickTask(data) ==
    LET agent == Strip(data.agent)
        promptText == DropEmptyLines(data.prompt)
        title == IF Strip(data.title) # "" THEN Strip(data.title)
                 ELSE DeriveTitleFromPrompt(data.prompt)
        model == Strip(data.model)
        priority == NormalizePriority(data.priority, "P2")
        project == IF Strip(data.project) = "" THEN "general" ELSE Strip(data.project)
        working_dir == IF Strip(data.working_dir) = "" THEN "~" ELSE Strip(data.working_dir)
        task_id == GenerateTaskIdAt(title, clock)
        spec_content == QuickSpecContent(title, task_id, IsoDate(clock), priority, agent,
                                         model, project, working_dir, promptText)
    IN  IF agent = "" THEN Rejected("quick", "", 400, "agent is required")
        ELSE IF promptText = << >> THEN Rejected("quick", "", 400, "prompt is required")
        ELSE CreatedThenLaunch("quick", QuickWrite(queue, task_id, spec_content, clock),
                               task_id, data.launch, 201)

(***************************************************************************)
(* The handlers on an existing task.                                       *)
(***************************************************************************)
Forget(arr, id) == Remove(arr, id)

\* POST /api/tasks/<task_id>/block
ApiBlockTask(task_id) ==
    IF ~Exists(queue, "pending", task_id)
    THEN Rejected("block", task_id, 404, "Task not found in pending")
    ELSE /\ queue' = ShutilMove(queue, "pending", "blocked", task_id)
         /\ resp' = Response("block", task_id, 200, "", "blocked")
         /\ UNCHANGED <<tmux, arrival>>

\* DELETE /api/tasks/<task_id>
ApiDeleteTask(task_id) ==
    IF StatesOf(queue, task_id) = {}
    THEN Rejected("delete", task_id, 404, "Task not found")
    ELSE LET state == FirstState(queue, task_id)
         IN  /\ queue' = Unlink(queue, state, task_id)
             /\ resp' = Response("delete", task_id, 200, "", state)
             /\ arrival' = IF state = "completed" THEN Forget(arrival, task_id) ELSE arrival
             /\ UNCHANGED tmux

\* PUT /api/tasks/<task_id>; data.given is whether the request has a content
ApiUpdateTask(task_id, data) ==
    IF ~data.given THEN Rejected("update", task_id, 400, "content is required")
    ELSE IF StatesOf(queue, task_id) = {}
    THEN Rejected("update", task_id, 404, "Task not found")
    ELSE LET state == FirstState(queue, task_id)
         IN  /\ queue' = WriteText(queue, state, task_id, data.content, clock)
             /\ resp' = Response("update", task_id, 200, "", state)
             /\ arrival' = IF state = "completed" THEN Forget(arrival, task_id) ELSE arrival
             /\ UNCHANGED tmux

\* an api_move_task that renames and does not touch
MoveFileNoTouch(q, state, target, task_id, t) == ShutilMove(q, state, target, task_id)

\* the file of a task after api_move_task moved it: renamed, then touched
MoveFile(q, state, target, task_id, t) ==
    Touch(ShutilMove(q, state, target, task_id), target, task_id, t)

\* POST /api/tasks/<task_id>/move
ApiMoveTask(task_id, to) ==
    LET target_state == Strip(to)
    IN  IF target_state \notin StateSet
        THEN Rejected("move", task_id, 400, "Invalid target state")
        ELSE IF StatesOf(queue, task_id) = {}
        THEN Rejected("move", task_id, 404, "Task not found")
        ELSE LET state == FirstState(queue, task_id)
             IN  IF state = target_state
                 THEN /\ resp' = Response("move", task_id, 200, "Already in target state", state)
                      /\ UNCHANGED <<queue, tmux, arrival>>
                 ELSE /\ queue' = MoveFile(queue, state, target_state, task_id, clock)
                      /\ resp' = Response("move", task_id, 200, "", state)
                      /\ arrival' = IF target_state = "completed"
                                    THEN Put(arrival, task_id, clock)
                                    ELSE IF state = "completed" THEN Forget(arrival, task_id)
                                    ELSE arrival
                      /\ UNCHANGED tmux

\* the re.subn of api_set_priority: [content, count]
RewritePriority(content, new_priority) == SubnField(content, "Priority", new_priority, TRUE)

\* POST /api/tasks/<task_id>/priority
ApiSetPriority(task_id, priority) ==
    LET new_priority == NormalizePriority(priority, "")
    IN  IF new_priority = ""
        THEN Rejected("priority", task_id, 400, "priority is required (P0, P1, P2, or P3)")
        ELSE IF StatesOf(queue, task_id) = {}
        THEN Rejected("priority", task_id, 404, "Task not found")
        ELSE LET state == FirstState(queue, task_id)
                 sub == RewritePriority(queue[state][task_id].content, new_priority)
             IN  IF sub.count = 0
                 THEN Rejected("priority", task_id, 400,
                               "Could not find Priority field in task spec")
                 ELSE /\ queue' = WriteText(queue, state, task_id, sub.content, clock)
                      /\ resp' = Response("priority", task_id, 200, "", new_priority)
                      /\ arrival' = IF state = "completed" THEN Forget(arrival, task_id)
                                    ELSE arrival
                      /\ UNCHANGED tmux

\* the id api_duplicate_task gives the copy of a document
DuplicateId(content, t) ==
    LET title == IF TitleMatch(content) = "" THEN "duplicated-task" ELSE TitleMatch(content)
    IN  GenerateTaskIdAt(title \o " (copy)", t)

\* the document api_duplicate_task writes
DuplicateContent(content, new_task_id, t) ==
    SubnField(SubnField(content, "ID", new_task_id, FALSE).content,
              "Created", IsoDate(t), FALSE).content

\* POST /api/tasks/<task_id>/duplicate
ApiDuplicateTask(task_id) ==
    IF StatesOf(queue, task_id) = {}
    THEN Rejected("duplicate", task_id, 404, "Task not found")
    ELSE LET state == FirstState(queue, task_id)
             content == queue[state][task_id].content
             new_task_id == DuplicateId(content, clock)
             q1 == WriteText(queue, "pending", new_task_id,
                             DuplicateContent(content, new_task_id, clock), clock)
         IN  /\ FileCount(q1) <= MaxFiles
             /\ queue' = q1
             /\ resp' = Response("duplicate", task_id, 200, "", new_task_id)
             /\ UNCHANGED <<tmux, arrival>>

(***************************************************************************)
(* The environment.                                                        *)
(***************************************************************************)
\* nothing is asked of the dashboard
Idle == UNCHANGED <<queue, tmux, resp, arrival>>

\* a worker exits, or its session is killed from a terminal
SessionExit(name) ==
    /\ name \in tmux
    /\ tmux' = tmux \ {name}
    /\ UNCHANGED <<queue, resp, arrival>>

(***************************************************************************)
(* The requests the operator sends.                                        *)
(***************************************************************************)
QuickRequest(title, agent, priority, prompt, launch) ==
    [title |-> title, agent |-> agent, model |-> "", priority |-> priority, project |-> "",
     working_dir |-> "", prompt |-> prompt, launch |-> launch]

QuickRequests ==
    { QuickRequest("Fix bug", "human", "", << <<"do", "it">> >>, FALSE),
      QuickRequest("Fix  Bug!", "gpt", "p1", << <<"set", "**Priority:**", "low">> >>, TRUE),
      QuickRequest("", "codex", "", << <<"#", "set", "up", "CI">> >>, FALSE),
      QuickRequest("Fix bug", "", "", << <<"do", "it">> >>, FALSE) }

CreateRequest(template, fields, agent, priority, launch) ==
    [template |-> template, fields |-> fields, agent |-> agent, model |-> "",
     priority |-> priority, project |-> "", launch |-> launch]

CreateRequests ==
    { CreateRequest("feature", [TITLE |-> "Fix bug", DESCRIPTION |-> "do it"], "", "1", FALSE),
      CreateRequest("feature", [TITLE |-> "Fix bug"], "claude", "", FALSE),
      CreateRequest("nope", [TITLE |-> "Fix bug"], "claude", "", FALSE) }

UpdateRequests ==
    { [given |-> FALSE, content |-> << >>],
      [given |-> TRUE,
       content |-> << <<"#", "Task:", "Fix", "bug">>, <<"**Priority:**">>,
                      <<"**Agent:**", "claude">> >>] }

PriorityInputs == {"P0", "urgent"}

MoveTargets == StateSet \cup {"archive"}

ModelOverrides == {"", "o4-mini"}

\* the task ids a request can name: those on disk and one that is not
TaskIdInputs == AllIds(queue) \cup {"task-unknown"}

\* a request is handled within one tick of the clock, and one at a time
Next ==
    /\ clock < FirstTick + MaxSteps
    /\ clock' = clock + 1
    /\ UNCHANGED <<args, returned, status_dir, inodes, calls>>
    /\ \/ \E data \in CreateRequests : ApiCreateTask(data)
       \/ \E data \in QuickRequests : ApiCreateQuickTask(data)
       \/ \E id \in TaskIdInputs, m \in ModelOverrides : ApiLaunchTask(id, m)
       \/ \E id \in TaskIdInputs : ApiBlockTask(id)
       \/ \E id \in TaskIdInputs : ApiDeleteTask(id)
       \/ \E id \in TaskIdInputs, data \in UpdateRequests : ApiUpdateTask(id, data)
       \/ \E id \in TaskIdInputs, to \in MoveTargets : ApiMoveTask(id, to)
       \/ \E id \in TaskIdInputs, p \in PriorityInputs : ApiSetPriority(id, p)
       \/ \E id \in TaskIdInputs : ApiDuplicateTask(id)
       \/ \E name \in tmux : SessionExit(name)
       \/ Idle

Spec == Init /\ [][Next]_vars

(***************************************************************************)
(* GET /api/queue: the listing of the completed directory.                 *)
(***************************************************************************)
\* _parse_task_spec, the fields api_queue lists for a completed task; stem is the
\* file's name without ".md", kept beside them to tell the entries apart
TaskData(stem, file) ==
    [stem |-> stem,
     id |-> IF ExtractField(file.content, "ID") # "" THEN ExtractField(file.content, "ID")
            ELSE stem,
     title |-> IF TitleMatch(file.content) # "" THEN TitleMatch(file.content) ELSE stem,
     agent |-> ExtractField(file.content, "Agent"),
     priority |-> ExtractField(file.content, "Priority"),
     project |-> ExtractField(file.content, "Project"),
     created |-> ExtractField(file.content, "Created"),
     mtime |-> file.mtime]

\* folder.glob("task-*.md") yields the files in an order the directory decides
GlobOrders(dir) ==
    LET stems == {id \in DOMAIN dir : StartsWith(id, "task-")}
        n == Cardinality(stems)
    IN  {o \in [1..n -> stems] : \A i, j \in 1..n : o[i] = o[j] => i = j}

\* list.sort(key=mtime, reverse=True) is stable: an entry goes behind the
\* entries whose mtime is at least its own
RECURSIVE InsertByMtime(_, _)
InsertByMtime(sorted, entry) ==
    IF Len(sorted) = 0 THEN <<entry>>
    ELSE IF Head(sorted).mtime >= entry.mtime
         THEN <<Head(sorted)>> \o InsertByMtime(Tail(sorted), entry)
         ELSE <<entry>> \o sorted

RECURSIVE SortByMtime(_, _)
SortByMtime(sorted, entries) ==
    IF Len(entries) = 0 THEN sorted
    ELSE SortByMtime(InsertByMtime(sorted, Head(entries)), Tail(entries))

\* result["completed"] of api_queue, for one glob order
ApiQueueCompleted(q, order) ==
    SortByMtime(<< >>, [i \in 1..Len(order) |-> TaskData(order[i], q["completed"][order[i]])])

\* the position of a file in a listing
PositionOf(listing, stem) == CHOOSE i \in 1..Len(listing) : listing[i].stem = stem

(***************************************************************************)
(* Properties of the task store and of the launch.                         *)
(***************************************************************************)
\* the document _launch_task reads for a task, when it finds the task
LaunchSpecContent(q, id) ==
    IF Exists(q, "pending", id) THEN q["pending"][id].content
    ELSE q["in-progress"][id].content

LaunchFinds(q, id) == Exists(q, "pending", id) \/ Exists(q, "in-progress", id)

\* C4: a launch of a task that is in neither pending nor in-progress fails with
\* 404 and moves no file; a launch of a task whose document has no Agent value
\* fails with "Agent not found", one whose Agent is none of codex, claude,
\* gemini, human fails with "Unknown agent"; none of the three creates a session.
C4_LaunchErrors ==
    [][\A id \in TaskIdInputs, m \in ModelOverrides :
          resp'.op = "launch" /\ resp'.id = id /\ ApiLaunchTask(id, m) =>
             /\ ~LaunchFinds(queue, id) =>
                   /\ resp'.code = 404
                   /\ resp'.error = "Task not found"
                   /\ queue' = queue
                   /\ tmux' = tmux
             /\ LaunchFinds(queue, id)
                  /\ ExtractField(LaunchSpecContent(queue, id), "Agent") = "" =>
                   /\ resp'.code = 400
                   /\ resp'.error = "Agent not found in task spec"
                   /\ tmux' = tmux
             /\ LaunchFinds(queue, id)
                  /\ ExtractField(LaunchSpecContent(queue, id), "Agent")
                        \notin KnownAgents \cup {""} =>
                   /\ resp'.code = 400
                   /\ resp'.error = "Unknown agent"
                   /\ tmux' = tmux]_vars

\* a launch was refused for an agent the dashboard does not know: the task is in
\* in-progress and has no session
C4_Witness ==
    /\ resp.op = "launch"
    /\ resp.code = 400
    /\ resp.error = "Unknown agent"
    /\ Exists(queue, "in-progress", resp.id)
    /\ ExtractField(queue["in-progress"][resp.id].content, "Agent") = "gpt"
    /\ SafeTmuxSessionName(DeriveSessionId(resp.id)) \notin tmux

\* C6: in every listing of completed, a task that a move brought there later is
\* listed before one that a move brought there earlier, when neither file was
\* written since.
C6_CompletedOrder ==
    \A order \in GlobOrders(queue["completed"]) :
        \A a, b \in DOMAIN arrival :
            arrival[a] > arrival[b] =>
                PositionOf(ApiQueueCompleted(queue, order), a)
                    < PositionOf(ApiQueueCompleted(queue, order), b)

\* the task id was generated in second sec
StampedIn(id, sec) ==
    \E t \in FirstTick..FirstTick + MaxSteps :
        SecondOf(t) = sec /\ StartsWith(id, "task-" \o Timestamp(t) \o "-")

\* two tasks are in completed; the one created in the earlier second arrived later
C6_Witness ==
    \E a, b \in DOMAIN arrival :
        /\ arrival[a] > arrival[b]
        /\ \E sa, sb \in 0..SecondOf(FirstTick + MaxSteps) :
              sa < sb /\ StampedIn(a, sa) /\ StampedIn(b, sb)
        /\ \A order \in GlobOrders(queue["completed"]) :
              ApiQueueCompleted(queue, order)[1].stem = a

\* C1: after every completed operation each task id has a file in exactly one
\* state directory, and a task that has a file keeps one until a delete of it
\* succeeds.
C1_SingleCopy ==
    [][/\ \A id \in AllIds(queue') : Cardinality(StatesOf(queue', id)) = 1
       /\ \A id \in AllIds(queue) :
             \/ id \in AllIds(queue')
             \/ resp'.op = "delete" /\ resp'.id = id /\ resp'.code = 200]_vars

\* a step of api_create_task or api_create_quick_task
CreateStep ==
    \/ \E data \in CreateRequests : ApiCreateTask(data)
    \/ \E data \in QuickRequests : ApiCreateQuickTask(data)

\* C2: a create whose generated task id already has a file fails and leaves
\* every directory as it was.
C2_CreateWriteOnce ==
    [][CreateStep /\ resp'.id \in AllIds(queue) =>
          resp'.code >= 400 /\ queue' = queue]_vars

\* C3: a launch that directly follows a successful launch of the same task
\* succeeds too and leaves the task in in-progress.
C3_LaunchIdempotent ==
    [][\A id \in TaskIdInputs, m \in ModelOverrides :
          /\ resp.op = "launch" /\ resp.id = id /\ resp.code = 200
          /\ ApiLaunchTask(id, m)
          => resp'.code = 200 /\ Exists(queue', "in-progress", id)]_vars

\* C5: a move to a state of the fixed set leaves the task in that state and in
\* no other; a move of a task to the state it is in succeeds and changes
\* nothing; a target outside the set is rejected and no file moves; a move of
\* an absent task is answered 404.
C5_MoveSemantics ==
    [][\A id \in TaskIdInputs, to \in MoveTargets :
          ApiMoveTask(id, to) =>
             /\ to \notin StateSet => resp'.code = 400 /\ queue' = queue
             /\ to \in StateSet /\ StatesOf(queue, id) = {} =>
                   resp'.code = 404 /\ queue' = queue
             /\ to \in StateSet /\ StatesOf(queue, id) # {} =>
                   /\ resp'.code = 200
                   /\ StatesOf(queue', id) = {to}
                   /\ to \in StatesOf(queue, id) => queue' = queue]_vars

\* the lines of a document that hold the label of a field
LabelLines(content, field) ==
    {i \in 1..Len(content) :
        \E j \in 1..Len(content[i]) : content[i][j] = FieldLabel(field)}

\* a document differs from another in one line at most
SameButLine(new, old, i) ==
    /\ Len(new) = Len(old)
    /\ \A k \in 1..Len(old) : k # i => new[k] = old[k]

\* C7: set_priority with a recognized value on a document that has a Priority
\* label makes Priority read that value and changes nothing else: not the
\* directory, the other fields or the body; on a document without the label it
\* fails and changes nothing; an unrecognized value is rejected and changes
\* nothing.
C7_PriorityOnly ==
    [][\A id \in AllIds(queue), p \in PriorityInputs :
          ApiSetPriority(id, p) =>
             LET state == FirstState(queue, id)
                 old == queue[state][id].content
                 labels == LabelLines(old, "Priority")
             IN  /\ NormalizePriority(p, "") \notin Priorities =>
                       resp'.code = 400 /\ queue' = queue
                 /\ NormalizePriority(p, "") \in Priorities /\ labels = {} =>
                       resp'.code = 400 /\ queue' = queue
                 /\ NormalizePriority(p, "") \in Priorities /\ labels # {} =>
                       /\ resp'.code = 200
                       /\ \A s \in StateSet : DOMAIN queue'[s] = DOMAIN queue[s]
                       /\ ExtractField(queue'[state][id].content, "Priority")
                             = NormalizePriority(p, "")
                       /\ SameButLine(queue'[state][id].content, old, MinOf(labels))
                       /\ \A f \in {"ID", "Agent", "Model", "Created", "Project"} :
                             ExtractField(queue'[state][id].content, f)
                                = ExtractField(old, f)]_vars

\* C8: duplicate writes a new task into pending whose Priority, Agent, Model and
\* body are the source's and whose ID and Created are not; the source stays
\* where it is, as it is.
C8_Duplicate ==
    [][\A id \in AllIds(queue) :
          ApiDuplicateTask(id) =>
             LET state == FirstState(queue, id)
                 old == queue[state][id].content
                 new_id == resp'.info
             IN  /\ resp'.code = 200
                 /\ new_id # id
                 /\ Exists(queue', "pending", new_id)
                 /\ queue'[state][id] = queue[state][id]
                 /\ LET new == queue'["pending"][new_id].content
                    IN  /\ \A f \in {"Priority", "Agent", "Model"} :
                              ExtractField(new, f) = ExtractField(old, f)
                        /\ Len(new) = Len(old)
                        /\ \A k \in 1..Len(old) :
                              k \notin LabelLines(old, "ID") \cup LabelLines(old, "Created")
                                 => new[k] = old[k]
                        /\ ExtractField(new, "ID") # ExtractField(old, "ID")
                        /\ ExtractField(new, "Created") # ExtractField(old, "Created")]_vars

\* C9: the task id a create, a quick create or a duplicate gives its task is
\* the id of no task that has a file.
C9_FreshIds ==
    [][/\ CreateStep /\ resp'.id # "" => resp'.id \notin AllIds(queue)
       /\ \A id \in AllIds(queue) :
             ApiDuplicateTask(id) => resp'.info \notin AllIds(queue)]_vars

\* C10: a delete of a task that has a file succeeds and leaves the task no file
\* in any directory; a delete of a task that has none is answered 404 and
\* changes nothing; the files of the other tasks stay as they are.
C10_Delete ==
    [][\A id \in TaskIdInputs :
          ApiDeleteTask(id) =>
             /\ StatesOf(queue, id) = {} => resp'.code = 404 /\ queue' = queue
             /\ StatesOf(queue, id) # {} =>
                   resp'.code = 200 /\ StatesOf(queue', id) = {}
             /\ \A s \in StateSet :
                   \A other \in DOMAIN queue[s] \ {id} :
                      Exists(queue', s, other) /\ queue'[s][other] = queue[s][other]]_vars

(***************************************************************************)
(* GET /api/queue: the listing of the pending directory.  It is studied on *)
(* a pending directory of its own: args.pending holds the files, and       *)
(* returned.pending the listing of them.                                   *)
(***************************************************************************)
\* the files a pending directory holds at most
MaxPending == 3

\* "pat in text"
Contains(text, pat) ==
    \E i \in 1..(Len(text) - Len(pat) + 1) : SubSeq(text, i, i + Len(pat) - 1) = pat

\* the characters of the task ids, in the order of their code points
CodeOrder == "-0123456789ABCDEFGHIJKLMNOPQRSTUVWXYZ_abcdefghijklmnopqrstuvwxyz"

CodeOf(c) == CHOOSE i \in 1..Len(CodeOrder) : CharAt(CodeOrder, i) = c

\* a < b, of two str
RECURSIVE StrLess(_, _)
StrLess(a, b) ==
    IF Len(b) = 0 THEN FALSE
    ELSE IF Len(a) = 0 THEN TRUE
    ELSE IF CharAt(a, 1) = CharAt(b, 1) THEN StrLess(SubSeq(a, 2, Len(a)), SubSeq(b, 2, Len(b)))
    ELSE CodeOf(CharAt(a, 1)) < CodeOf(CharAt(b, 1))

\* int(digits)
RECURSIVE IntOf(_)
IntOf(digits) ==
    IF Len(digits) = 0 THEN 0
    ELSE 10 * IntOf(SubSeq(digits, 1, Len(digits) - 1))
         + (CodeOf(CharAt(digits, Len(digits))) - CodeOf("0"))

\* priority_sort_key: rf"\\bP{i}\\b" is the text \bP0\b with its backslashes,
\* which the search takes literally; "P0" in p is the test that decides
PrioritySortKey(item) ==
    LET p == Upper(item.priority)
        found == {i \in 0..3 : \/ Contains(p, "\\bP" \o ToString(i) \o "\\b")
                               \/ Contains(p, "P" \o ToString(i))}
    IN  IF found = {} THEN 99 ELSE MinOf(found)

\* the end of the digits that start at position i of s
RECURSIVE DigitsEnd(_, _)
DigitsEnd(s, i) ==
    IF i <= Len(s) /\ CharAt(s, i) \in DigitSet THEN DigitsEnd(s, i + 1) ELSE i - 1

\* re.search(r"-([A-Z])([0-9]+)-", task_id, re.IGNORECASE): the positions of
\* the "-" a match starts at
GroupMatches(task_id) ==
    {i \in 1..Len(task_id) :
        /\ CharAt(task_id, i) = "-"
        /\ i + 3 <= Len(task_id)
        /\ CharAt(task_id, i + 1) \in UpperSet \cup LowerSet
        /\ CharAt(task_id, i + 2) \in DigitSet
        /\ DigitsEnd(task_id, i + 2) < Len(task_id)
        /\ CharAt(task_id, DigitsEnd(task_id, i + 2) + 1) = "-"}

\* a sort key that leaves out the group and the number, as that of in-progress
PendingSortKeyNoGroup(item) == <<PrioritySortKey(item), "Z", 9999, item.id>>

\* pending_sort_key
PendingSortKey(item) ==
    LET task_id == item.id
        ms == GroupMatches(task_id)
        i == MinOf(ms)
    IN  <<PrioritySortKey(item),
          IF ms = {} THEN "Z" ELSE Upper(CharAt(task_id, i + 1)),
          IF ms = {} THEN 9999
          ELSE IntOf(SubSeq(task_id, i + 2, DigitsEnd(task_id, i + 2))),
          task_id>>

\* a < b, of two keys (int, str, int, str)
KeyLess(a, b) ==
    \/ a[1] < b[1]
    \/ a[1] = b[1] /\ StrLess(a[2], b[2])
    \/ a[1] = b[1] /\ a[2] = b[2] /\ a[3] < b[3]
    \/ a[1] = b[1] /\ a[2] = b[2] /\ a[3] = b[3] /\ StrLess(a[4], b[4])

\* list.sort(key=pending_sort_key) is stable: an entry goes behind the entries
\* whose key is not greater than its own
RECURSIVE InsertByKey(_, _)
InsertByKey(sorted, entry) ==
    IF Len(sorted) = 0 THEN <<entry>>
    ELSE IF KeyLess(PendingSortKey(entry), PendingSortKey(Head(sorted)))
         THEN <<entry>> \o sorted
         ELSE <<Head(sorted)>> \o InsertByKey(Tail(sorted), entry)

RECURSIVE SortByKey(_, _)
SortByKey(sorted, entries) ==
    IF Len(entries) = 0 THEN sorted
    ELSE SortByKey(InsertByKey(sorted, Head(entries)), Tail(entries))

\* result["pending"] of api_queue, for one glob order of the directory
ApiQueuePending(dir, order) ==
    SortByKey(<< >>, [i \in 1..Len(order) |-> TaskData(order[i], dir[order[i]])])

\* the task store, when a function is studied on its own
StoreAtRest ==
    /\ queue = [s \in StateSet |-> EmptyDir]
    /\ tmux = {}
    /\ clock = FirstTick
    /\ resp = Response("none", "", 0, "", "")
    /\ arrival = EmptyDir
    /\ status_dir = NoFiles
    /\ inodes = NoFiles
    /\ calls = NoCalls

StoreVars == <<queue, tmux, clock, resp, arrival, status_dir, inodes, calls>>

\* a task file with an ID and a Priority field
PendingFile(id, priority) ==
    [content |-> << <<"#", "Task:", "x">>, <<"**ID:**", id>>,
                    <<"**Priority:**">> \o Tokenize(priority) >>,
     mtime |-> 0]

\* the files a pending directory is filled from, by file name
PendingFiles ==
    [stem \in {"task-1-A01-x", "task-1-A02-x", "task-1-H01-x", "task-1-a10-x",
               "task-1-B2-x", "task-1-fix"} |->
        CASE stem = "task-1-A01-x" -> PendingFile(stem, "P1")
          [] stem = "task-1-A02-x" -> PendingFile(stem, "P0")
          [] stem = "task-1-H01-x" -> PendingFile(stem, "P1")
          [] stem = "task-1-a10-x" -> PendingFile(stem, "p2")
          [] stem = "task-1-B2-x" -> PendingFile(stem, "P2")
          [] OTHER -> [content |-> << <<"**Priority:**", "high">> >>, mtime |-> 0]]

InitPending ==
    /\ StoreAtRest
    /\ \E S \in SUBSET DOMAIN PendingFiles :
          /\ Cardinality(S) <= MaxPending
          /\ \E order \in GlobOrders([stem \in S |-> PendingFiles[stem]]) :
                args = [fn |-> "api_queue",
                        pending |-> [stem \in S |-> PendingFiles[stem]],
                        order |-> order]
    /\ returned = NoReturn

\* GET /api/queue, on the pending directory
ApiQueue ==
    /\ ~returned.called
    /\ returned' = [called |-> TRUE, pending |-> ApiQueuePending(args.pending, args.order)]
    /\ UNCHANGED <<args, StoreVars>>

SpecPending == InitPending /\ [][ApiQueue]_vars

\* the rank of a priority: P0 < P1 < P2 < P3 < any other value
PriorityRank(priority) ==
    IF Upper(priority) \in Priorities
    THEN CHOOSE i \in 0..3 : Upper(priority) = "P" \o ToString(i)
    ELSE 4

\* the key of a listed task: rank, group letter, number, id
ListingKey(item) ==
    LET ms == GroupMatches(item.id)
        i == MinOf(ms)
    IN  <<PriorityRank(item.priority),
          IF ms = {} THEN "Z" ELSE Upper(CharAt(item.id, i + 1)),
          IF ms = {} THEN 9999 ELSE IntOf(SubSeq(item.id, i + 2, DigitsEnd(item.id, i + 2))),
          item.id>>

ErrorPatternsWithoutError == {"traceback", "exception", "fatal:", "failed"}

ERROR_PATTERNS == {"traceback", "exception", "fatal:", "error:", "failed"}
DONE_PATTERNS == {"task complete", "task completed", "completed end-to-end", "done."}
WORKING_PATTERNS ==
    {"esc to interrupt", "working (", "planning ", "running job bot",
     "tracking run progress", "waiting for background terminal"}
DEMOTABLE_WORKING_PATTERNS ==
    {"esc to interrupt", "working (", "planning ", "tracking run progress"}
BACKGROUND_PROGRESS_PATTERNS ==
    {"waiting for background terminal", "tracking run progress", "running job bot"}
INFORMATIONAL_PROMPT_PREFIXES == {"use /"}
PROMPT_STALE_SECONDS == 15
BACKGROUND_PROGRESS_STALE_SECONDS == 300
\* the literals of the function
RecentLines == 20
MessageLength == 160
PromptLength == 140
IdleSeconds == 300

\* any(pat in text for pat in patterns)
AnyIn(patterns, text) == \E pat \in patterns : Contains(text, pat)

\* the escape character, and the classes [0-?], [ -/] and [@-~] of
\* ANSI_ESCAPE_RE; the last lacks the backquote, which a string here cannot hold
ESC == ""
AnsiParams == CharsOf("0123456789:;<=>?")
AnsiIntermediates == CharsOf(" !\"#$%&'()*+,-./")
AnsiFinals == CharsOf("@ABCDEFGHIJKLMNOPQRSTUVWXYZ[\\]^_abcdefghijklmnopqrstuvwxyz{|}~")

\* the end of the run of characters of a class that starts at position i
RECURSIVE RunEnd(_, _, _)
RunEnd(s, i, class) ==
    IF i <= Len(s) /\ CharAt(s, i) \in class THEN RunEnd(s, i + 1, class) ELSE i - 1

\* the last position of the escape sequence that starts at position i, or 0:
\* the three classes are disjoint, so the greedy match is the only one
AnsiEnd(s, i) ==
    LET p == RunEnd(s, i + 2, AnsiParams)
        q == RunEnd(s, p + 1, AnsiIntermediates)
    IN  IF /\ CharAt(s, i) = ESC
           /\ i + 2 <= Len(s)
           /\ CharAt(s, i + 1) = "["
           /\ q + 1 <= Len(s)
           /\ CharAt(s, q + 1) \in AnsiFinals
        THEN q + 1 ELSE 0

\* _strip_ansi
RECURSIVE StripAnsiFrom(_, _)
StripAnsiFrom(s, i) ==
    IF i > Len(s) THEN ""
    ELSE IF AnsiEnd(s, i) > 0 THEN StripAnsiFrom(s, AnsiEnd(s, i) + 1)
    ELSE CharAt(s, i) \o StripAnsiFrom(s, i + 1)

StripAnsi(text) == StripAnsiFrom(text, 1)

\* _is_informational_prompt
IsInformationalPrompt(prompt_text) ==
    LET lowered == Lower(Strip(prompt_text))
    IN  IF lowered = "" THEN FALSE
        ELSE IF lowered = "use /skills to list available skills" THEN TRUE
        ELSE IF lowered = "implement {feature}" THEN TRUE
        ELSE \E prefix \in INFORMATIONAL_PROMPT_PREFIXES : StartsWith(lowered, prefix)

\* the prefix line.startswith tests for, as the source file spells it, and what
\* line[2:] leaves of the line
PromptPrefix == "â€º "
IsPromptLine(line) == StartsWith(line, PromptPrefix)
PromptText(line) == Strip(SubSeq(line, 3, Len(line)))

\* s[:n]
Truncate(s, n) == IF Len(s) > n THEN SubSeq(s, 1, n) ELSE s

\* [f(line) for line in lines if line and line.strip()]
RECURSIVE Cleaned(_)
Cleaned(lines) ==
    IF Len(lines) = 0 THEN << >>
    ELSE (IF Strip(Head(lines)) # "" THEN <<Strip(StripAnsi(Head(lines)))>> ELSE << >>)
         \o Cleaned(Tail(lines))

\* cleaned[-20:]
LastLines(cleaned, n) ==
    IF Len(cleaned) > n THEN SubSeq(cleaned, Len(cleaned) - n + 1, Len(cleaned)) ELSE cleaned

\* the greatest of a set of positions; 0 is the None of the source, whose
\* positions start at 0 and here at 1
MaxOf(S) == IF S = {} THEN 0 ELSE CHOOSE x \in S : \A y \in S : y <= x

Inferred(state, message) == [state |-> state, message |-> message]

\* _infer_status_from_output; last_activity_ts is [known, ts], not known for None
InferStatusFromOutput(lines, last_activity_ts, now_ts) ==
    LET cleaned == Cleaned(lines)
        recent_lines == LastLines(cleaned, RecentLines)
        idxs == 1..Len(recent_lines)
        lowered == [i \in idxs |-> Lower(recent_lines[i])]
        prompts == {i \in idxs : IsPromptLine(recent_lines[i])}
        info == {i \in prompts : IsInformationalPrompt(PromptText(recent_lines[i]))}
        latest_working_idx == MaxOf({i \in idxs : AnyIn(WORKING_PATTERNS, lowered[i])})
        latest_background_count_idx ==
            MaxOf({i \in idxs : \/ Contains(lowered[i], "background terminal running")
                                \/ Contains(lowered[i], "background terminals running")})
        latest_info_prompt_idx == MaxOf(info)
        latest_noninfo_prompt_idx == MaxOf(prompts \ info)
        latest_noninfo_prompt_text == PromptText(recent_lines[latest_noninfo_prompt_idx])
        error_idx == MaxOf({i \in idxs : AnyIn(ERROR_PATTERNS, lowered[i])})
        done_idx == MaxOf({i \in idxs : AnyIn(DONE_PATTERNS, lowered[i])})
        has_background_progress ==
            \E i \in idxs : AnyIn(BACKGROUND_PROGRESS_PATTERNS, lowered[i])
        working_demotable ==
            AnyIn(DEMOTABLE_WORKING_PATTERNS, lowered[latest_working_idx])
        activity_age == now_ts - last_activity_ts.ts
    IN  IF cleaned = << >> THEN Inferred("running", "Running")
        ELSE IF error_idx # 0
        THEN Inferred("error", Truncate(recent_lines[error_idx], MessageLength))
        ELSE IF done_idx # 0 /\ latest_noninfo_prompt_idx # 0
        THEN Inferred("done", Truncate(recent_lines[done_idx], MessageLength))
        ELSE IF /\ latest_noninfo_prompt_idx # 0
                /\ (latest_working_idx = 0 \/ latest_noninfo_prompt_idx > latest_working_idx)
        THEN Inferred("needs_input",
                      IF latest_noninfo_prompt_text # ""
                      THEN "Awaiting input: "
                              \o Truncate(latest_noninfo_prompt_text, PromptLength)
                      ELSE "Awaiting input")
        ELSE IF latest_working_idx # 0
        THEN IF /\ latest_info_prompt_idx # 0
                /\ latest_info_prompt_idx > latest_working_idx
                /\ working_demotable
                /\ last_activity_ts.known
                /\ activity_age > PROMPT_STALE_SECONDS
                /\ ~has_background_progress
             THEN Inferred("needs_input", "Awaiting input")
             ELSE IF /\ has_background_progress
                     /\ last_activity_ts.known
                     /\ activity_age > BACKGROUND_PROGRESS_STALE_SECONDS
                     /\ latest_info_prompt_idx # 0
                     /\ latest_info_prompt_idx > latest_working_idx
             THEN Inferred("needs_input", "Awaiting input")
             ELSE IF /\ latest_background_count_idx # 0
                     /\ latest_background_count_idx >= latest_working_idx
             THEN Inferred("working",
                           Truncate(recent_lines[latest_background_count_idx], MessageLength))
             ELSE Inferred("working",
                           Truncate(recent_lines[latest_working_idx], MessageLength))
        ELSE IF /\ latest_info_prompt_idx # 0
                /\ (~last_activity_ts.known \/ activity_age > PROMPT_STALE_SECONDS)
        THEN Inferred("needs_input", "Awaiting input")
        ELSE IF last_activity_ts.known /\ activity_age > IdleSeconds
        THEN Inferred("idle", "Idle")
        ELSE IF \E i \in idxs : Contains(lowered[i], "waiting")
        THEN Inferred("idle", "Waiting")
        ELSE Inferred("running", "Running")

(***************************************************************************)
(* The inference, studied on its own: args holds the lines and the times   *)
(* of a call, returned what the call returned.                             *)
(***************************************************************************)
\* the lines of a window, before the lines that fill it up
MaxLines == 3

\* the time of the call
NowTs == 1000

\* the lines a pane shows
OutputLines ==
    {"Error:", "[32mdone.", "â€º go", "â€º use /x", "working (", "running job bot",
     "waiting", " "}

\* a line that matches no pattern, and how many of them follow the others
FillLine == "ok"
Fills == {0, RecentLines}

\* the seconds since the last activity
ActivityAges == {PROMPT_STALE_SECONDS, PROMPT_STALE_SECONDS + 1,
                 BACKGROUND_PROGRESS_STALE_SECONDS, BACKGROUND_PROGRESS_STALE_SECONDS + 1}

NoActivity == [known |-> FALSE, ts |-> 0]
ActivityAt(ts) == [known |-> TRUE, ts |-> ts]

Windows == UNION {[1..n -> OutputLines] : n \in 0..MaxLines}

InitInfer ==
    /\ StoreAtRest
    /\ \E head \in Windows, fill \in Fills,
          ts \in {NoActivity} \cup {ActivityAt(NowTs - age) : age \in ActivityAges} :
          args = [fn |-> "_infer_status_from_output",
                  head |-> head,
                  lines |-> head \o [i \in 1..fill |-> FillLine],
                  last_activity_ts |-> ts,
                  now_ts |-> NowTs]
    /\ returned = NoReturn

\* a call of _infer_status_from_output
Infer ==
    /\ ~returned.called
    /\ returned' =
          [called |-> TRUE,
           inferred |-> InferStatusFromOutput(args.lines, args.last_activity_ts, args.now_ts)]
    /\ UNCHANGED <<args, StoreVars>>

SpecInfer == InitInfer /\ [][Infer]_vars

(***************************************************************************)
(* Properties of the inference.                                            *)
(***************************************************************************)
\* the markers of an error, of a completion and of work, in lower case
ErrorMarkers == {"traceback", "exception", "fatal:", "error:", "failed"}
DoneMarkers == {"task complete", "task completed", "completed end-to-end", "done."}
WorkingMarkers ==
    {"esc to interrupt", "working (", "planning ", "running job bot",
     "tracking run progress", "waiting for background terminal"}

HasMarker(line, markers) == \E m \in markers : Contains(Lower(line), m)

\* the lines the inference looks at: the last RecentLines of the lines that are
\* not blank
Window == LastLines(Cleaned(args.lines), RecentLines)

\* C12 as stated: a call whose lines hold an error marker, at any position,
\* returns error.
C12_ErrorAnywhere ==
    returned.called /\ (\E i \in 1..Len(args.lines) : HasMarker(args.lines[i], ErrorMarkers))
        => returned.inferred.state = "error"

\* C12, amended: a call that has an error marker in one of the last 20 of its
\* lines that are not blank returns error, whatever else these lines hold and
\* whatever the time of the last activity is.
C12_ErrorInWindow ==
    returned.called /\ (\E i \in 1..Len(Window) : HasMarker(Window[i], ErrorMarkers))
        => returned.inferred.state = "error"

\* error was returned for an error line that a completion marker and a prompt
\* follow
C12_Witness ==
    /\ returned.called
    /\ Len(args.head) = 3
    /\ HasMarker(args.head[1], ErrorMarkers)
    /\ HasMarker(args.head[2], DoneMarkers)
    /\ IsPromptLine(args.head[3])
    /\ Len(args.lines) = 3
    /\ returned.inferred.state = "error"

\* what follows the prompt prefix on a prompt line
AfterPrefix(line) == Strip(SubSeq(line, Len(PromptPrefix) + 1, Len(line)))

\* a prompt whose text is one of the informational ones, and one whose text is not
InformationalLine(line) == IsPromptLine(line) /\ IsInformationalPrompt(AfterPrefix(line))
ActionableLine(line) == IsPromptLine(line) /\ ~IsInformationalPrompt(AfterPrefix(line))

\* the positions of the window with an error marker, a completion marker, a
\* working pattern, an actionable prompt and an informational prompt
ErrorAt == {i \in 1..Len(Window) : HasMarker(Window[i], ErrorMarkers)}
DoneAt == {i \in 1..Len(Window) : HasMarker(Window[i], DoneMarkers)}
WorkingAt == {i \in 1..Len(Window) : HasMarker(Window[i], WorkingMarkers)}
ActionableAt == {i \in 1..Len(Window) : ActionableLine(Window[i])}
InformationalAt == {i \in 1..Len(Window) : InformationalLine(Window[i])}

\* the seconds since the last activity, when it is known
ActivityAge == args.now_ts - args.last_activity_ts.ts
ActivityOlderThan(seconds) == args.last_activity_ts.known /\ ActivityAge > seconds

\* C13: without an error marker in the window, done is returned only when an
\* actionable prompt stands at a later position than a completion marker.
C13_DoneRule ==
    returned.called /\ ErrorAt = {} /\ returned.inferred.state = "done"
        => \E d \in DoneAt : \E p \in ActionableAt : p > d

\* done by the rule of C13: a completion marker and an actionable prompt
DoneClassified == DoneAt # {} /\ ActionableAt # {}

\* C14: without an error and without a done classification, a window whose
\* latest actionable prompt stands after its latest working line, or that has
\* no working line, gives needs_input and "Awaiting input: " with the text of
\* that prompt, cut to 140 characters; a window whose latest working line
\* stands after its latest actionable prompt is left to the working rule.
C14_ExplicitPrompt ==
    returned.called /\ ErrorAt = {} /\ ~DoneClassified /\ ActionableAt # {} =>
        /\ MaxOf(ActionableAt) > MaxOf(WorkingAt) =>
              /\ returned.inferred.state = "needs_input"
              /\ returned.inferred.message
                    = "Awaiting input: "
                         \o Truncate(AfterPrefix(Window[MaxOf(ActionableAt)]), PromptLength)
        /\ MaxOf(WorkingAt) > MaxOf(ActionableAt) =>
              \/ returned.inferred.state = "working"
              \/ /\ returned.inferred.state = "needs_input"
                 /\ returned.inferred.message = "Awaiting input"

\* the demotable patterns and the background-progress markers
DemotableMarkers == {"esc to interrupt", "working (", "planning ", "tracking run progress"}
BackgroundMarkers ==
    {"waiting for background terminal", "tracking run progress", "running job bot"}

BackgroundAt == {i \in 1..Len(Window) : HasMarker(Window[i], BackgroundMarkers)}

\* C15: a window without error marker, completion marker, actionable prompt
\* and background-progress marker, whose latest working line is demotable and
\* has an informational prompt after it, gives needs_input when the last
\* activity is more than 15 seconds old, and working when it is at most 15
\* seconds old or not known.
C15_StalenessDemotion ==
    /\ returned.called
    /\ ErrorAt = {} /\ DoneAt = {} /\ ActionableAt = {} /\ BackgroundAt = {}
    /\ WorkingAt # {}
    /\ HasMarker(Window[MaxOf(WorkingAt)], DemotableMarkers)
    /\ MaxOf(InformationalAt) > MaxOf(WorkingAt)
    => returned.inferred.state
          = IF ActivityOlderThan(15) THEN "needs_input" ELSE "working"

\* C16: a window without error marker, completion marker and actionable
\* prompt, with a working line, a background-progress marker and an
\* informational prompt after the working line, gives needs_input when the
\* last activity is more than 300 seconds old, and working when it is at most
\* 300 seconds old.
C16_BackgroundDemotion ==
    /\ returned.called
    /\ ErrorAt = {} /\ DoneAt = {} /\ ActionableAt = {}
    /\ WorkingAt # {} /\ BackgroundAt # {}
    /\ MaxOf(InformationalAt) > MaxOf(WorkingAt)
    /\ args.last_activity_ts.known
    => returned.inferred.state
          = IF ActivityOlderThan(300) THEN "needs_input" ELSE "working"

\* C17: a window without error marker, actionable prompt and working line,
\* with an informational prompt, gives needs_input when the last activity is
\* more than 15 seconds old or not known, and another state when it is at most
\* 15 seconds old.
C17_InformationalOnly ==
    /\ returned.called
    /\ ErrorAt = {} /\ ActionableAt = {} /\ WorkingAt = {}
    /\ InformationalAt # {}
    => (returned.inferred.state = "needs_input")
          <=> (~args.last_activity_ts.known \/ ActivityOlderThan(15))

\* needs_input by the informational-only rule of C17
InformationalOnly ==
    InformationalAt # {} /\ (~args.last_activity_ts.known \/ ActivityOlderThan(15))

\* C18: a window, empty or not, to which none of the error, done, needs_input
\* and working rules applies gives idle when the last activity is more than
\* 300 seconds old or a line holds "waiting", and running otherwise.
C18_IdleAndFallback ==
    /\ returned.called
    /\ ErrorAt = {} /\ ~DoneClassified /\ ActionableAt = {} /\ WorkingAt = {}
    /\ ~InformationalOnly
    => returned.inferred.state
          = IF \/ ActivityOlderThan(300)
               \/ \E i \in 1..Len(Window) : Contains(Lower(Window[i]), "waiting")
            THEN "idle" ELSE "running"

(***************************************************************************)
(* The reconciliation of the sessions: /api/sessions.                      *)
(***************************************************************************)
\* a value of a status record: json says what it is, text is str() of it
JAbsent == [json |-> "absent", text |-> "None"]
JStr(s) == [json |-> "str", text |-> s]
JNum(n) == [json |-> "num", text |-> ToString(n)]

\* bool(value)
Truthy(value) ==
    CASE value.json = "str" -> value.text # ""
      [] value.json = "num" -> value.text # "0"
      [] OTHER -> FALSE

\* a status record that is a JSON object, and one that is none
JObject(state, message) ==
    [json |-> "object", state |-> state, message |-> message,
     progress |-> JAbsent, updated_at |-> JAbsent]
JNull == [json |-> "null"]
JArray == [json |-> "array"]
EmptyPayload == JObject(JAbsent, JAbsent)

\* a state that _normalize_state does not know
NoState == "None"

\* the mapping of _normalize_state
StateMapping(text) ==
    CASE text \in {"in_progress", "in-progress", "running"} -> "working"
      [] text = "blocked" -> "needs_input"
      [] text \in {"complete", "completed"} -> "done"
      [] text = "failed" -> "error"
      [] OTHER -> text

KnownStates == {"idle", "working", "needs_input", "done", "error"}

\* _normalize_state that knows no state
NormalizeStateNone(raw_state) == NoState

\* _normalize_state
NormalizeState(raw_state) ==
    IF ~Truthy(raw_state) THEN NoState
    ELSE LET text == Lower(Strip(raw_state.text))
         IN  IF text = "" THEN NoState
             ELSE IF StateMapping(text) \in KnownStates THEN StateMapping(text)
             ELSE NoState

\* _detect_agent_type
AgentCandidates == <<"claude", "codex", "gemini", "terminal">>
DetectAgentType(session_id) ==
    LET hits == {i \in 1..Len(AgentCandidates) : StartsWith(Lower(session_id), AgentCandidates[i])}
    IN  IF hits = {} THEN "unknown"
        ELSE AgentCandidates[CHOOSE i \in hits : \A j \in hits : i <= j]

\* the id of a session of _list_tmux_sessions
OrchPrefix == "orch-"
SessionId(tmux_name) ==
    IF StartsWith(tmux_name, OrchPrefix)
    THEN SubSeq(tmux_name, Len(OrchPrefix) + 1, Len(tmux_name))
    ELSE tmux_name

\* int(text), None when int() raises
IsInt(text) ==
    /\ Strip(text) # ""
    /\ \A i \in 1..Len(Strip(text)) : CharAt(Strip(text), i) \in DigitSet
ActivityTs(activity) ==
    IF IsInt(activity) THEN ActivityAt(IntOf(Strip(activity))) ELSE NoActivity

\* the lines of a pane that are not blank, the last of them
CapturedLines == 80
PreviewLines == 3
NonBlank(lines) == SelectSeq(lines, LAMBDA ln : Strip(ln) # "")
Last(lines, n) == SubSeq(lines, IF Len(lines) > n THEN Len(lines) - n + 1 ELSE 1, Len(lines))

\* status_map.get(session_id, {})
PayloadOf(status_map, session_id) ==
    IF session_id \in DOMAIN status_map THEN status_map[session_id] ELSE EmptyPayload

\* payload.get(...) and .strip() raise AttributeError on what has no such method
PayloadRaises(payload) ==
    \/ payload.json # "object"
    \/ Truthy(payload.message) /\ payload.message.json # "str"

\* the entry of one session of the loop of api_sessions
SessionEntry(session, status_map, now_ts) ==
    LET session_id == SessionId(session.tmux_name)
        payload == PayloadOf(status_map, session_id)
        preview_lines == IF session.pane.returncode = 0 THEN NonBlank(session.pane.stdout) ELSE <<>>
        captured_lines == Last(preview_lines, CapturedLines)
        state == NormalizeState(payload.state)
        message == IF Truthy(payload.message) THEN Strip(payload.message.text) ELSE ""
        inferred == InferStatusFromOutput(captured_lines, ActivityTs(session.activity), now_ts)
        message1 == IF state = NoState /\ message = "" THEN inferred.message ELSE message
    IN  [id |-> session_id,
         agent_type |-> DetectAgentType(session_id),
         status |-> IF state = NoState THEN inferred.state ELSE state,
         message |-> IF message1 = "" THEN "Running" ELSE message1,
         progress |-> payload.progress,
         updated_at |-> payload.updated_at,
         output_preview |-> Last(preview_lines, PreviewLines)]

\* sessions.sort(key=lambda s: s["id"]), a stable sort
RECURSIVE InsertById(_, _)
InsertById(sorted, entry) ==
    IF Len(sorted) = 0 THEN <<entry>>
    ELSE IF StrLess(entry.id, sorted[1].id) THEN <<entry>> \o sorted
    ELSE <<sorted[1]>> \o InsertById(Tail(sorted), entry)

RECURSIVE SortById(_)
SortById(entries) ==
    IF Len(entries) = 0 THEN <<>>
    ELSE InsertById(SortById(SubSeq(entries, 1, Len(entries) - 1)), entries[Len(entries)])

\* api_sessions: the response, 500 when the loop raises
ApiSessions(tmux_sessions, status_map, now_ts) ==
    IF \E i \in 1..Len(tmux_sessions) :
          PayloadRaises(PayloadOf(status_map, SessionId(tmux_sessions[i].tmux_name)))
    THEN [called |-> TRUE, code |-> 500, sessions |-> <<>>]
    ELSE [called |-> TRUE, code |-> 200,
          sessions |-> SortById([i \in 1..Len(tmux_sessions) |->
                                    SessionEntry(tmux_sessions[i], status_map, now_ts)])]

(***************************************************************************)
(* One pass of the reconciliation, studied on its own: args holds what     *)
(* tmux and the status store answer, returned the response.                *)
(***************************************************************************)
MaxSessions == 2

TmuxNames == {"orch-claude-a", "b"}

\* the session_activity of a session: seconds, or what int() refuses
Activities == {"600", "x"}

\* what capture-pane answers; the session may be gone by then
PaneFailed == [returncode |-> 1, stdout |-> <<>>]
PaneOf(lines) == [returncode |-> 0, stdout |-> lines]
Panes == {PaneFailed, PaneOf(<<"Error:", " ">>), PaneOf(<<"working (">>)}

\* the status records of a session, read from the status files as JSON
Records ==
    {JObject(JStr("working"), JAbsent),
     JObject(JStr("RUNNING "), JStr(" busy ")),
     JObject(JStr("failed"), JAbsent),
     JObject(JStr("in-progress"), JAbsent),
     JObject(JStr("bogus"), JStr("hello")),
     JObject(JNum(1), JAbsent),
     JObject(JStr("done"), JNum(5)),
     JNull,
     JArray}

StatusMaps ==
    UNION {[ids -> Records] : ids \in SUBSET {SessionId(n) : n \in TmuxNames}}

TmuxSessions ==
    {s \in UNION {[1..n -> [tmux_name : TmuxNames, activity : Activities, pane : Panes]]
                  : n \in 0..MaxSessions} :
        \A i, j \in 1..Len(s) : s[i].tmux_name = s[j].tmux_name => i = j}

InitSessions ==
    /\ StoreAtRest
    /\ \E tmux_sessions \in TmuxSessions, status_map \in StatusMaps :
          args = [fn |-> "api_sessions",
                  tmux_sessions |-> tmux_sessions,
                  status_map |-> status_map,
                  now_ts |-> NowTs]
    /\ returned = NoReturn

\* GET /api/sessions
ApiSessionsCall ==
    /\ ~returned.called
    /\ returned' = ApiSessions(args.tmux_sessions, args.status_map, args.now_ts)
    /\ UNCHANGED <<args, StoreVars>>

SpecSessions == InitSessions /\ [][ApiSessionsCall]_vars

(***************************************************************************)
(* Properties of the reconciliation.                                       *)
(***************************************************************************)
\* the sessions that tmux enumerated, and the record and the entry of one
Enumerated == 1..Len(args.tmux_sessions)
EnumeratedId(i) == SessionId(args.tmux_sessions[i].tmux_name)
HasRecord(i) == EnumeratedId(i) \in DOMAIN args.status_map
RecordOf(i) == args.status_map[EnumeratedId(i)]
EntriesOf(i) == {k \in 1..Len(returned.sessions) : returned.sessions[k].id = EnumeratedId(i)}

\* the state a record reports, in lower case without the blanks around it
ReportedState(i) ==
    IF HasRecord(i) /\ RecordOf(i).json = "object" /\ RecordOf(i).state.json = "str"
    THEN Lower(Strip(RecordOf(i).state.text)) ELSE ""

\* the recognized states and what they are normalized to
RecognizedStates ==
    {"idle", "working", "needs_input", "done", "error",
     "in_progress", "running", "blocked", "complete", "completed", "failed"}
NormalizedState(text) ==
    CASE text \in {"in_progress", "running"} -> "working"
      [] text = "blocked" -> "needs_input"
      [] text \in {"complete", "completed"} -> "done"
      [] text = "failed" -> "error"
      [] OTHER -> text

\* what the inference makes of the pane of a session
InferredOf(i) ==
    LET pane == args.tmux_sessions[i].pane
        activity == args.tmux_sessions[i].activity
    IN  InferStatusFromOutput(
            IF pane.returncode = 0 THEN NonBlank(pane.stdout) ELSE <<>>,
            ActivityTs(activity),
            args.now_ts)

\* C19: in the entries a pass returns, the state of a session whose status
\* record reports a recognized state is that state, normalized, whatever the
\* inference makes of the captured output; the state is the inferred one
\* when the session has no record or the record reports no state or one
\* that is not recognized (in-progress, which the code takes for in_progress,
\* is on neither side).
C19_RecordAuthoritative ==
    returned.called =>
        \A i \in Enumerated : \A k \in EntriesOf(i) :
            /\ ReportedState(i) \in RecognizedStates
                  => returned.sessions[k].status = NormalizedState(ReportedState(i))
            /\ ReportedState(i) \notin RecognizedStates \cup {"in-progress"}
                  => returned.sessions[k].status = InferredOf(i).state

\* a pass returned working for a session whose record says RUNNING and whose
\* pane shows an error, and the inferred state for a session without a record
C19_Witness ==
    /\ returned.called
    /\ \E i \in Enumerated : \E k \in EntriesOf(i) :
          /\ ReportedState(i) = "running"
          /\ InferredOf(i).state = "error"
          /\ returned.sessions[k].status = "working"
    /\ \E i \in Enumerated : \E k \in EntriesOf(i) :
          /\ ~HasRecord(i)
          /\ returned.sessions[k].status = "error"

\* C20: a pass returns one entry for each session that tmux enumerated,
\* whatever the capture of its pane, its activity and its status record are:
\* no session is left out and the pass does not fail.
C20_EntryPerSession ==
    returned.called =>
        /\ returned.code = 200
        /\ Len(returned.sessions) = Len(args.tmux_sessions)
        /\ \A i \in Enumerated : EntriesOf(i) # {}

(***************************************************************************)
(* The backends of a pass: tmux and the status server may be out of reach. *)
(***************************************************************************)
\* str.split(sep), sep one character
RECURSIVE SplitFrom(_, _, _, _)
SplitFrom(s, sep, i, start) ==
    IF i > Len(s) THEN <<SubSeq(s, start, Len(s))>>
    ELSE IF CharAt(s, i) = sep
         THEN <<SubSeq(s, start, i - 1)>> \o SplitFrom(s, sep, i + 1, i + 1)
         ELSE SplitFrom(s, sep, i + 1, start)
Split(s, sep) == SplitFrom(s, sep, 1, 1)

\* subprocess.run(["tmux"] + args): raises FileNotFoundError without the
\* binary, answers a return code that is not 0 without a server
TmuxAbsent == [raises |-> TRUE, returncode |-> 0, stdout |-> <<>>]
TmuxNoServer == [raises |-> FALSE, returncode |-> 1, stdout |-> <<>>]
TmuxAnswers(lines) == [raises |-> FALSE, returncode |-> 0, stdout |-> lines]

\* the sessions of the lines of list-sessions
ListedSessions(lines) ==
    LET kept == SelectSeq(lines, LAMBDA line : line # "" /\ Len(Split(line, "|")) >= 4)
    IN  [i \in 1..Len(kept) |->
            LET parts == Split(kept[i], "|")
            IN  [id |-> SessionId(parts[1]), tmux_name |-> parts[1], created |-> parts[2],
                 activity |-> parts[3], windows |-> parts[4]]]

\* _list_tmux_sessions
ListTmuxSessions(result) ==
    IF result.raises THEN [raises |-> TRUE, sessions |-> <<>>]
    ELSE IF result.returncode # 0 THEN [raises |-> FALSE, sessions |-> <<>>]
    ELSE [raises |-> FALSE, sessions |-> ListedSessions(result.stdout)]

\* what the status server answers to get_all, and the status files
ServerDown(files) == [up |-> FALSE, sessions_is_dict |-> FALSE, sessions |-> <<>>, files |-> files]
ServerUp(is_dict, sessions) ==
    [up |-> TRUE, sessions_is_dict |-> is_dict, sessions |-> sessions, files |-> [dir |-> FALSE]]
NoStatusDir == [dir |-> FALSE]
StatusDir(files) == [dir |-> TRUE, files |-> files]
NotJson == [json |-> "invalid"]

\* _fetch_status_map
FetchStatusMap(status) ==
    IF status.up
    THEN [map |-> IF status.sessions_is_dict THEN status.sessions ELSE <<>>, ok |-> TRUE]
    ELSE IF ~status.files.dir THEN [map |-> <<>>, ok |-> FALSE]
    ELSE LET parsed == {stem \in DOMAIN status.files.files : status.files.files[stem] # NotJson}
         IN  [map |-> [stem \in parsed |-> status.files.files[stem]], ok |-> TRUE]

\* api_sessions with its backends: the response, 500 when an exception leaves it
ApiSessionsRequest(tmux_result, panes, status, now_ts) ==
    LET fetched == FetchStatusMap(status)
        listed == ListTmuxSessions(tmux_result)
        tmux_sessions == [i \in 1..Len(listed.sessions) |->
                             [tmux_name |-> listed.sessions[i].tmux_name,
                              activity |-> listed.sessions[i].activity,
                              pane |-> panes[listed.sessions[i].tmux_name]]]
    IN  IF listed.raises
        THEN [called |-> TRUE, code |-> 500, sessions |-> <<>>, status_server_ok |-> fetched.ok]
        ELSE [status_server_ok |-> fetched.ok] @@ ApiSessions(tmux_sessions, fetched.map, now_ts)

(***************************************************************************)
(* One pass with its backends, studied on its own.                         *)
(***************************************************************************)
\* the lines list-sessions prints
ListLines == {"orch-claude-a|1|600|1", "b|1|x|2", "c|1", ""}
ListOutputs ==
    {lines \in UNION {[1..n -> ListLines] : n \in 0..MaxSessions} :
        \A i, j \in 1..Len(lines) : lines[i] = lines[j] => i = j}

\* the records the status files and the server hold
GoodRecords == {JObject(JStr("working"), JAbsent), JObject(JStr("bogus"), JStr("hello"))}
StatusIds == {"claude-a", "b"}
ServerMaps == UNION {[ids -> GoodRecords] : ids \in SUBSET StatusIds}
FileMaps == UNION {[ids -> GoodRecords \cup {NotJson}] : ids \in SUBSET StatusIds}
StatusBackends ==
    {ServerUp(TRUE, m) : m \in ServerMaps} \cup {ServerUp(FALSE, <<>>)}
    \cup {ServerDown(NoStatusDir)} \cup {ServerDown(StatusDir(f)) : f \in FileMaps}

TmuxBackends == {TmuxAbsent, TmuxNoServer} \cup {TmuxAnswers(lines) : lines \in ListOutputs}

InitBackends ==
    /\ StoreAtRest
    /\ \E tmux_result \in TmuxBackends, status \in StatusBackends,
          pane \in {PaneFailed, PaneOf(<<"Error:", " ">>)} :
          args = [fn |-> "api_sessions",
                  tmux |-> tmux_result,
                  panes |-> [n \in {"orch-claude-a", "b", "c"} |-> pane],
                  status |-> status,
                  now_ts |-> NowTs]
    /\ returned = NoReturn

\* GET /api/sessions
ApiSessionsPass ==
    /\ ~returned.called
    /\ returned' = ApiSessionsRequest(args.tmux, args.panes, args.status, args.now_ts)
    /\ UNCHANGED <<args, StoreVars>>

SpecBackends == InitBackends /\ [][ApiSessionsPass]_vars

\* C21: a pass without the tmux binary or without a tmux server lists no
\* session and raises nothing; a pass without the status server completes,
\* with the status files or with an empty status map.
C21_BackendsAbsorbed ==
    returned.called =>
        /\ args.tmux.raises \/ args.tmux.returncode # 0
              => returned.code = 200 /\ returned.sessions = <<>>
        /\ ~args.status.up => returned.code = 200

(***************************************************************************)
(* The names of the sessions: _safe_tmux_session_name and                  *)
(* _resolve_tmux_session, studied on their own.                            *)
(***************************************************************************)
\* what tmux has-session answers: has holds the names it reports as existing
TmuxWith(has) == [raises |-> FALSE, has |-> has]
TmuxMissing == [raises |-> TRUE, has |-> {}]

\* the candidates of _resolve_tmux_session, in the order of the probes
ResolveCandidates(session_id) ==
    <<SafeTmuxSessionName(session_id),
      "orch-" \o session_id,
      "orch-" \o SafeTmuxSessionName(session_id),
      session_id>>

NoSession == [raises |-> FALSE, found |-> FALSE, tmux_session |-> ""]
Resolved(name) == [raises |-> FALSE, found |-> TRUE, tmux_session |-> name]
ResolveRaised == [raises |-> TRUE, found |-> FALSE, tmux_session |-> ""]

\* a _resolve_tmux_session that probes the prefixed names first
ResolveTmuxSessionLegacyFirst(session_id, tmux_state) ==
    LET candidates == <<"orch-" \o session_id, "orch-" \o SafeTmuxSessionName(session_id),
                        SafeTmuxSessionName(session_id), session_id>>
        hits == {i \in 1..Len(candidates) : candidates[i] # "" /\ candidates[i] \in tmux_state.has}
    IN  IF tmux_state.raises THEN ResolveRaised
        ELSE IF hits = {} THEN NoSession
        ELSE Resolved(candidates[CHOOSE i \in hits : \A j \in hits : i <= j])

\* _resolve_tmux_session: a candidate that is empty or was seen is skipped,
\* the first probe raises when tmux cannot be run
ResolveTmuxSession(session_id, tmux_state) ==
    LET candidates == ResolveCandidates(session_id)
        probed == {i \in 1..Len(candidates) :
                      /\ candidates[i] # ""
                      /\ \A j \in 1..(i - 1) : candidates[j] # candidates[i]}
        hits == {i \in probed : candidates[i] \in tmux_state.has}
    IN  IF probed # {} /\ tmux_state.raises THEN ResolveRaised
        ELSE IF hits = {} THEN NoSession
        ELSE Resolved(candidates[CHOOSE i \in hits : \A j \in hits : i <= j])

\* how far an id goes beyond the longest name
Overflow == 1

RECURSIVE Repeat(_, _)
Repeat(s, n) == IF n = 0 THEN "" ELSE s \o Repeat(s, n - 1)

\* the ids of the routes
SessionIds ==
    {"task-20240101-001", "a.b", "a b_C", "orch-x", "b",
     Repeat("x", TmuxNameMaxLength),
     Repeat("x", TmuxNameMaxLength - 1) \o Repeat(".", Overflow) \o "y",
     Repeat("x", TmuxNameMaxLength + Overflow)}

CandidateNames(session_id) == {ResolveCandidates(session_id)[i] : i \in 1..4}

InitResolve ==
    /\ StoreAtRest
    /\ \E session_id \in SessionIds :
          \/ \E tmux_state \in {TmuxMissing}
                   \cup {TmuxWith(has) : has \in SUBSET (CandidateNames(session_id) \cup {"other"})} :
                args = [fn |-> "_resolve_tmux_session", session_id |-> session_id,
                        tmux |-> tmux_state]
          \/ args = [fn |-> "_safe_tmux_session_name", session_id |-> session_id,
                     tmux |-> TmuxMissing]
    /\ returned = NoReturn

\* a call of _resolve_tmux_session
Resolve ==
    /\ ~returned.called
    /\ args.fn = "_resolve_tmux_session"
    /\ returned' = [called |-> TRUE, name |-> "",
                    resolved |-> ResolveTmuxSession(args.session_id, args.tmux)]
    /\ UNCHANGED <<args, StoreVars>>

\* a call of _safe_tmux_session_name
Sanitize ==
    /\ ~returned.called
    /\ args.fn = "_safe_tmux_session_name"
    /\ returned' = [called |-> TRUE, name |-> SafeTmuxSessionName(args.session_id),
                    resolved |-> NoSession]
    /\ UNCHANGED <<args, StoreVars>>

SpecResolve == InitResolve /\ [][Resolve \/ Sanitize]_vars

\* the names the claims speak of: the sanitized id, and the probes in order
SafeChars == "abcdefghijklmnopqrstuvwxyzABCDEFGHIJKLMNOPQRSTUVWXYZ0123456789_-"
IsSafeName(name) ==
    /\ Len(name) <= 64
    /\ \A i \in 1..Len(name) : \E k \in 1..Len(SafeChars) :
          SubSeq(name, i, i) = SubSeq(SafeChars, k, k)
ProbeOrder(session_id, sanitized) ==
    <<sanitized, "orch-" \o session_id, "orch-" \o sanitized, session_id>>
ResolveCalled == returned.called /\ args.fn = "_resolve_tmux_session" /\ ~args.tmux.raises
SanitizeCalled == returned.called /\ args.fn = "_safe_tmux_session_name"

\* C22: when tmux answers, resolve returns the first of the sanitized id,
\* orch- and the raw id, orch- and the sanitized id, the raw id that tmux
\* reports as existing, and none when it reports none of them; for
\* task-20240101-001 that is the unprefixed name whenever it exists and the
\* prefixed one when only that exists.
C22_ResolveOrder ==
    ResolveCalled =>
        LET probes == ProbeOrder(args.session_id, SafeTmuxSessionName(args.session_id))
            existing == {i \in 1..4 : probes[i] \in args.tmux.has}
        IN  /\ existing = {} => returned.resolved = NoSession
            /\ existing # {} =>
                  /\ returned.resolved.found
                  /\ \E i \in existing :
                        /\ returned.resolved.tmux_session = probes[i]
                        /\ \A j \in existing : i <= j
            /\ args.session_id = "task-20240101-001" =>
                  /\ "task-20240101-001" \in args.tmux.has
                        => returned.resolved = Resolved("task-20240101-001")
                  /\ args.tmux.has \cap {"task-20240101-001", "orch-task-20240101-001"}
                        = {"orch-task-20240101-001"}
                        => returned.resolved = Resolved("orch-task-20240101-001")

\* resolve returned the sanitized name of a.b although orch-a.b exists too
C22_Witness ==
    /\ ResolveCalled
    /\ args.session_id = "a.b"
    /\ {"a-b", "orch-a.b"} \subseteq args.tmux.has
    /\ returned.resolved = Resolved("a-b")

\* C23: the sanitized name has at most 64 characters, all of them letters,
\* digits, _ or -; it is the id when the id is such a name already, it is
\* the id with - for every other character when the id is short enough,
\* and sanitizing it again changes nothing.
C23_Sanitized ==
    SanitizeCalled =>
        /\ IsSafeName(returned.name)
        /\ IsSafeName(args.session_id) => returned.name = args.session_id
        /\ Len(returned.name) = IF Len(args.session_id) > 64 THEN 64 ELSE Len(args.session_id)
        /\ \A i \in 1..Len(returned.name) :
              SubSeq(returned.name, i, i) =
                 IF IsSafeName(SubSeq(args.session_id, i, i)) THEN SubSeq(args.session_id, i, i)
                 ELSE "-"
        /\ SafeTmuxSessionName(returned.name) = returned.name

\* an id of 65 characters with a dot in it was cut to 64 and the dot replaced
C23_Witness ==
    /\ SanitizeCalled
    /\ Len(args.session_id) > 64
    /\ ~IsSafeName(SubSeq(args.session_id, 1, 64))
    /\ Len(returned.name) = 64
    /\ returned.name # SubSeq(args.session_id, 1, 64)

(***************************************************************************)
(* The status server.  A file of the status directory is a name bound to   *)
(* an inode; a handle on an open file follows the inode, not the name.     *)
(***************************************************************************)
STATES == {"idle", "working", "needs_input", "done", "error"}

\* an optional field of a payload: no value, or one
None == <<>>
Some(v) == <<v>>

StatusPayload(state, message, progress, updated_at) ==
    [state |-> state, message |-> message, progress |-> progress, updated_at |-> updated_at]

ProgressMin == 0
ProgressMax == 100

\* the validation of StatusPayload: validate_state, and ge and le of progress
PayloadValid(payload) ==
    /\ payload.state \in STATES
    /\ \/ payload.progress = None
       \/ (payload.progress[1] >= ProgressMin /\ payload.progress[1] <= ProgressMax)

\* SESSION_ID_RE.match: $ matches at the end and before a line feed at the end
SessionIdChars == UpperChars \o LowerChars \o DigitChars \o "_.-"
AllSessionIdChars(s) ==
    Len(s) >= 1 /\ \A i \in 1..Len(s) : InChars(CharAt(s, i), SessionIdChars)
SessionIdMatches(session_id) ==
    \/ AllSessionIdChars(session_id)
    \/ /\ Len(session_id) >= 2
       /\ CharAt(session_id, Len(session_id)) = "\n"
       /\ AllSessionIdChars(SubSeq(session_id, 1, Len(session_id) - 1))

\* _session_file, and the temporary file of _write_status
SessionFile(session_id) == session_id \o ".json"
TmpFile(path) == path \o ".tmp"

EndsWith(s, suffix) ==
    Len(s) >= Len(suffix) /\ SubSeq(s, Len(s) - Len(suffix) + 1, Len(s)) = suffix

\* what a file holds: nothing, a part of the JSON text of a writer, the
\* whole JSON text of a record, or the texts of two writers over each other
Truncated == [kind |-> "empty"]
PartOf(c) == [kind |-> "part", of |-> c]
Whole(data) == [kind |-> "whole", data |-> data]
Mixed == [kind |-> "mixed"]

\* open(name, "w"): the handle is the inode of the name, emptied, or a new one
OpenedInode(dir, ino, name) == IF name \in DOMAIN dir THEN dir[name] ELSE Len(ino) + 1
OpenW(dir, ino, name) ==
    [dir |-> IF name \in DOMAIN dir THEN dir ELSE (name :> (Len(ino) + 1)) @@ dir,
     ino |-> IF name \in DOMAIN dir THEN [ino EXCEPT ![dir[name]] = Truncated]
             ELSE Append(ino, Truncated)]

\* os.remove(name), and os.replace(src, dst) of a src that exists
RemoveName(dir, name) == [n \in DOMAIN dir \ {name} |-> dir[n]]
Replace(dir, src, dst) == (dst :> dir[src]) @@ RemoveName(dir, src)

\* _now_rfc3339
NowRfc3339(t) ==
    IsoDate(t) \o "T00:00:0" \o ToString(SecondOf(t) % SecondsPerDay) \o "Z"

\* a _write_status that cleans up and never renames
WriteStatusNoReplace(dir, ino, session_id, data) ==
    [dir |-> dir, ino |-> Append(ino, Whole(data))]

\* _write_status, when no other call touches the files meanwhile
WriteStatus(dir, ino, session_id, data) ==
    LET path == SessionFile(session_id)
        opened == OpenW(dir, ino, TmpFile(path))
        fd == OpenedInode(dir, ino, TmpFile(path))
    IN  [dir |-> Replace(opened.dir, TmpFile(path), path),
         ino |-> [opened.ino EXCEPT ![fd] = Whole(data)]]

\* json.load of a file: only a whole text is JSON
Loads(dir, ino, name) == ino[dir[name]].kind = "whole"
Loaded(dir, ino, name) == ino[dir[name]].data

StatusResponse(op, session_id, code, data) ==
    [called |-> TRUE, op |-> op, session_id |-> session_id, code |-> code, data |-> data]
NoData == <<>>

\* POST /status/{session_id}: 422 of the validation of the body comes first
PostStatus(dir, ino, session_id, payload, now) ==
    LET data == IF payload.updated_at = None
                THEN [payload EXCEPT !.updated_at = Some(NowRfc3339(now))] ELSE payload
        written == WriteStatus(dir, ino, session_id, data)
    IN  IF ~PayloadValid(payload)
        THEN [dir |-> dir, ino |-> ino, response |-> StatusResponse("post", session_id, 422, NoData)]
        ELSE IF ~SessionIdMatches(session_id)
        THEN [dir |-> dir, ino |-> ino, response |-> StatusResponse("post", session_id, 400, NoData)]
        ELSE [dir |-> written.dir, ino |-> written.ino,
              response |-> StatusResponse("post", session_id, 200, Some(data))]

\* GET /status/{session_id}: json.load raises on what is no JSON
GetStatus(dir, ino, session_id) ==
    IF ~SessionIdMatches(session_id) THEN StatusResponse("get", session_id, 400, NoData)
    ELSE IF SessionFile(session_id) \notin DOMAIN dir
    THEN StatusResponse("get", session_id, 404, NoData)
    ELSE IF ~Loads(dir, ino, SessionFile(session_id))
    THEN StatusResponse("get", session_id, 500, NoData)
    ELSE StatusResponse("get", session_id, 200, Some(Loaded(dir, ino, SessionFile(session_id))))

\* GET /status: the files that end in .json and hold JSON
JsonSuffix == ".json"
GetAllStatuses(dir, ino) ==
    LET names == {n \in DOMAIN dir : EndsWith(n, JsonSuffix) /\ Loads(dir, ino, n)}
        ids == {SubSeq(n, 1, Len(n) - Len(JsonSuffix)) : n \in names}
    IN  StatusResponse("get_all", "", 200,
                       Some([id \in ids |-> Loaded(dir, ino, id \o JsonSuffix)]))

\* DELETE /status/{session_id}
DeleteStatus(dir, ino, session_id) ==
    IF ~SessionIdMatches(session_id)
    THEN [dir |-> dir, response |-> StatusResponse("delete", session_id, 400, NoData)]
    ELSE IF SessionFile(session_id) \notin DOMAIN dir
    THEN [dir |-> dir, response |-> StatusResponse("delete", session_id, 404, NoData)]
    ELSE [dir |-> RemoveName(dir, SessionFile(session_id)),
          response |-> StatusResponse("delete", session_id, 200, NoData)]

(***************************************************************************)
(* The status server, one call after the other: args.log holds the calls   *)
(* made, returned the response to the last.                                *)
(***************************************************************************)
MaxCalls == 3

\* the task store at rest
TasksAtRest ==
    /\ queue = [s \in StateSet |-> EmptyDir]
    /\ tmux = {}
    /\ resp = Response("none", "", 0, "", "")
    /\ arrival = EmptyDir
TaskVars == <<queue, tmux, resp, arrival>>

GoodPayloads ==
    {StatusPayload("working", Some("hi"), Some(ProgressMax), None),
     StatusPayload("done", None, None, Some("2023-12-31T23:59:59Z"))}
BadPayloads ==
    {StatusPayload("bogus", None, None, None),
     StatusPayload("idle", None, Some(ProgressMax + 1), None),
     StatusPayload("error", None, Some(ProgressMin - 1), None)}
GoodIds == {"a", "b.c"}
BadIds == {"a b", "a\n"}
Posts == (GoodIds \X GoodPayloads) \cup (BadIds \X {StatusPayload("working", Some("hi"), Some(ProgressMax), None)})
         \cup ({"a"} \X BadPayloads)
Lookups == GoodIds \cup BadIds

Logged(op, session_id, payload, response) ==
    [op |-> op, session_id |-> session_id, payload |-> payload, code |-> response.code]

InitStatus ==
    /\ TasksAtRest
    /\ clock = FirstTick
    /\ status_dir = NoFiles
    /\ inodes = NoFiles
    /\ calls = NoCalls
    /\ args = [fn |-> "status_server", log |-> <<>>]
    /\ returned = NoReturn

Post(session_id, payload) ==
    LET out == PostStatus(status_dir, inodes, session_id, payload, clock)
    IN  /\ status_dir' = out.dir
        /\ inodes' = out.ino
        /\ returned' = out.response
        /\ args' = [args EXCEPT !.log = Append(@, Logged("post", session_id, Some(payload), out.response))]

Get(session_id) ==
    /\ returned' = GetStatus(status_dir, inodes, session_id)
    /\ args' = [args EXCEPT !.log = Append(@, Logged("get", session_id, None, returned'))]
    /\ UNCHANGED <<status_dir, inodes>>

GetAll ==
    /\ returned' = GetAllStatuses(status_dir, inodes)
    /\ args' = [args EXCEPT !.log = Append(@, Logged("get_all", "", None, returned'))]
    /\ UNCHANGED <<status_dir, inodes>>

Delete(session_id) ==
    LET out == DeleteStatus(status_dir, inodes, session_id)
    IN  /\ status_dir' = out.dir
        /\ returned' = out.response
        /\ args' = [args EXCEPT !.log = Append(@, Logged("delete", session_id, None, out.response))]
        /\ UNCHANGED inodes

NextStatus ==
    /\ Len(args.log) < MaxCalls
    /\ clock' = clock + 1
    /\ UNCHANGED <<TaskVars, calls>>
    /\ \/ \E post \in Posts : Post(post[1], post[2])
       \/ \E session_id \in Lookups : Get(session_id)
       \/ GetAll
       \/ \E session_id \in Lookups : Delete(session_id)

SpecStatus == InitStatus /\ [][NextStatus]_vars

(***************************************************************************)
(* Properties of the status server.                                        *)
(***************************************************************************)
AllowedIdChars == "abcdefghijklmnopqrstuvwxyzABCDEFGHIJKLMNOPQRSTUVWXYZ0123456789_.-"
OnlyAllowedIdChars(session_id) ==
    \A i \in 1..Len(session_id) : \E k \in 1..Len(AllowedIdChars) :
        SubSeq(session_id, i, i) = SubSeq(AllowedIdChars, k, k)
EnumStates == {"idle", "working", "needs_input", "done", "error"}
ProgressInRange(progress) == progress = None \/ (0 <= progress[1] /\ progress[1] <= 100)

\* the records the store holds
StoredRecords ==
    {inodes[status_dir[name]] : name \in {n \in DOMAIN status_dir : EndsWith(n, ".json")}}

\* C24: a write whose session id has a character outside A-Z a-z 0-9 _ . -,
\* whose state is not one of the five, or whose progress is outside 0..100
\* is rejected and leaves the store as it was; and every record in the store
\* has one of the five states and a progress, if any, within 0..100.
C24_WritesValidated ==
    /\ [](\A record \in StoredRecords :
             record.kind = "whole" =>
                /\ record.data.state \in EnumStates
                /\ ProgressInRange(record.data.progress))
    /\ [][\A post \in Posts :
             /\ returned'.op = "post" /\ returned'.session_id = post[1]
             /\ Post(post[1], post[2])
             /\ \/ ~OnlyAllowedIdChars(post[1])
                \/ post[2].state \notin EnumStates
                \/ ~ProgressInRange(post[2].progress)
             => /\ returned'.code # 200
                /\ UNCHANGED <<status_dir, inodes>>]_vars

\* the calls before the last that wrote or deleted the record of an id
\* with success, and the last of them
Earlier == SubSeq(args.log, 1, Len(args.log) - 1)
WritesOf(session_id) ==
    {k \in 1..Len(Earlier) :
        /\ Earlier[k].session_id = session_id
        /\ Earlier[k].op \in {"post", "delete"}
        /\ Earlier[k].code = 200}
LastWriteOf(session_id) == Earlier[MaxOf(WritesOf(session_id))]

\* a record is the payload of a PUT: the fields the PUT gave are the same
SamePayload(data, payload) ==
    /\ data.state = payload.state
    /\ data.message = payload.message
    /\ data.progress = payload.progress
    /\ payload.updated_at # None => data.updated_at = payload.updated_at

\* what a GET of each id would answer
Answers(dir, ino) == [session_id \in Lookups |-> GetStatus(dir, ino, session_id)]

\* C25: a GET of an id answers the payload of the last PUT of that id when
\* no DELETE of it followed, and 404 otherwise; a DELETE of an id without a
\* record answers 404 and changes nothing; a PUT or a DELETE of an id leaves
\* what a GET of any other id answers as it was.
C25_LastWriteWins ==
    /\ [](returned.called /\ returned.op = "get" /\ OnlyAllowedIdChars(returned.session_id)
          => IF WritesOf(returned.session_id) # {}
                /\ LastWriteOf(returned.session_id).op = "post"
             THEN /\ returned.code = 200
                  /\ SamePayload(returned.data[1], LastWriteOf(returned.session_id).payload[1])
             ELSE returned.code = 404)
    /\ [][\A session_id \in Lookups :
             /\ returned'.op = "delete" /\ returned'.session_id = session_id
             /\ Delete(session_id)
             /\ OnlyAllowedIdChars(session_id)
             /\ GetStatus(status_dir, inodes, session_id).code = 404
             => returned'.code = 404 /\ Answers(status_dir', inodes') = Answers(status_dir, inodes)]_vars
    /\ [][\A session_id \in Lookups :
             /\ returned'.op \in {"post", "delete"} /\ returned'.session_id = session_id
             /\ \/ \E post \in Posts : post[1] = session_id /\ Post(post[1], post[2])
                \/ Delete(session_id)
             => \A other \in Lookups \ {session_id} :
                   Answers(status_dir', inodes')[other] = Answers(status_dir, inodes)[other]]_vars

\* a GET answered the payload of the second of two PUTs of an id, and a GET
\* after a PUT and a DELETE answered 404
C25_Witness ==
    /\ returned.called
    /\ returned.op = "get"
    /\ Len(args.log) = 3
    /\ args.log[1].op = "post" /\ args.log[1].code = 200
    /\ args.log[1].session_id = returned.session_id
    /\ \/ /\ args.log[2].op = "post" /\ args.log[2].code = 200
          /\ args.log[2].session_id = returned.session_id
          /\ args.log[2].payload # args.log[1].payload
          /\ returned.code = 200
          /\ returned.data[1].state = args.log[2].payload[1].state
       \/ /\ args.log[2].op = "delete" /\ args.log[2].code = 200
          /\ args.log[2].session_id = returned.session_id
          /\ returned.code = 404

(***************************************************************************)
(* The writes of the status server, step by step: the handlers of the      *)
(* status server run in threads, so the steps of two POSTs and the reads   *)
(* interleave.  calls[c] is the call of the caller c.                      *)
(***************************************************************************)
Writers == {"w1", "w2"}
WrittenId == "a"
RecordBefore == StatusPayload("idle", None, None, Some("2023-12-31T23:59:58Z"))
DataOf(c) ==
    IF c = "w1" THEN StatusPayload("working", Some("hi"), Some(ProgressMax), Some("2023-12-31T23:59:59Z"))
    ELSE StatusPayload("done", None, None, Some("2023-12-31T23:59:59Z"))

\* pc: the step the call has come to; fd: the inode of its handle; flushed:
\* a part of its text has left the buffer of the handle
WriteCall(pc, fd) == [pc |-> pc, fd |-> fd, flushed |-> FALSE]

InitWrites ==
    /\ TasksAtRest
    /\ clock = FirstTick
    /\ \/ status_dir = NoFiles /\ inodes = NoFiles
       \/ status_dir = (SessionFile(WrittenId) :> 1) /\ inodes = <<Whole(RecordBefore)>>
    /\ calls = [c \in Writers |-> WriteCall("start", 0)]
    /\ args = [fn |-> "_write_status", session_id |-> WrittenId]
    /\ returned = NoReturn

\* with open(tmp_path, "w") as handle
WriteOpen(c) ==
    /\ calls[c].pc = "start"
    /\ LET tmp_path == TmpFile(SessionFile(args.session_id))
           opened == OpenW(status_dir, inodes, tmp_path)
       IN  /\ status_dir' = opened.dir
           /\ inodes' = opened.ino
           /\ calls' = [calls EXCEPT ![c] = WriteCall("opened", OpenedInode(status_dir, inodes, tmp_path))]
    /\ UNCHANGED <<returned>>

\* json.dump(data, handle): a part of the text reaches the file, or all of
\* it stays in the buffer of the handle
WriteDump(c) ==
    /\ calls[c].pc = "opened"
    /\ \/ /\ inodes' = [inodes EXCEPT ![calls[c].fd] =
                           IF @ = Truncated THEN PartOf(c) ELSE Mixed]
          /\ calls' = [calls EXCEPT ![c].pc = "dumped", ![c].flushed = TRUE]
       \/ /\ calls' = [calls EXCEPT ![c].pc = "dumped"]
          /\ UNCHANGED inodes
    /\ UNCHANGED <<status_dir, returned>>

\* the end of the with block: the rest of the text is written where the
\* handle stands; written over the text of another writer from the start,
\* the text is whole when it is not the shorter one
WriteClose(c) ==
    /\ calls[c].pc = "dumped"
    /\ calls' = [calls EXCEPT ![c].pc = "closed"]
    /\ LET held == inodes[calls[c].fd]
       IN  IF held = (IF calls[c].flushed THEN PartOf(c) ELSE Truncated)
           THEN inodes' = [inodes EXCEPT ![calls[c].fd] = Whole(DataOf(c))]
           ELSE IF calls[c].flushed
           THEN inodes' = [inodes EXCEPT ![calls[c].fd] = Mixed]
           ELSE \/ inodes' = [inodes EXCEPT ![calls[c].fd] = Whole(DataOf(c))]
                \/ inodes' = [inodes EXCEPT ![calls[c].fd] = Mixed]
    /\ UNCHANGED <<status_dir, returned>>

\* os.replace(tmp_path, path): FileNotFoundError without the temporary file
WriteReplace(c) ==
    /\ calls[c].pc = "closed"
    /\ LET path == SessionFile(args.session_id)
       IN  IF TmpFile(path) \in DOMAIN status_dir
           THEN /\ status_dir' = Replace(status_dir, TmpFile(path), path)
                /\ calls' = [calls EXCEPT ![c].pc = "done"]
           ELSE /\ calls' = [calls EXCEPT ![c].pc = "failed"]
                /\ UNCHANGED status_dir
    /\ UNCHANGED <<inodes, returned>>

\* the files as the dashboard finds them in STATUS_FALLBACK_DIR: glob("*.json")
FallbackFiles(dir, ino) ==
    LET names == {n \in DOMAIN dir : EndsWith(n, JsonSuffix)}
        stems == {SubSeq(n, 1, Len(n) - Len(JsonSuffix)) : n \in names}
    IN  StatusDir([stem \in stems |->
                      IF Loads(dir, ino, stem \o JsonSuffix)
                      THEN Loaded(dir, ino, stem \o JsonSuffix) ELSE NotJson])

\* a read: GET /status/a, GET /status, or _fetch_status_map without the server
ReadOne ==
    /\ returned' = GetStatus(status_dir, inodes, args.session_id)
    /\ UNCHANGED <<status_dir, inodes, calls>>
ReadAll ==
    /\ returned' = GetAllStatuses(status_dir, inodes)
    /\ UNCHANGED <<status_dir, inodes, calls>>
ReadFallback ==
    /\ returned' = StatusResponse("fallback", "", 200,
                      Some(FetchStatusMap(ServerDown(FallbackFiles(status_dir, inodes))).map))
    /\ UNCHANGED <<status_dir, inodes, calls>>

NextWrites ==
    /\ UNCHANGED <<TaskVars, clock, args>>
    /\ \/ \E c \in Writers : WriteOpen(c)
       \/ \E c \in Writers : WriteDump(c)
       \/ \E c \in Writers : WriteClose(c)
       \/ \E c \in Writers : WriteReplace(c)
       \/ ReadOne
       \/ ReadAll
       \/ ReadFallback

SpecWrites == InitWrites /\ [][NextWrites]_vars

\* the records written so far, whole
WrittenRecords == {RecordBefore} \cup {DataOf(c) : c \in Writers}

\* C26: whatever the steps of the writes and the reads, a read of one
\* session answers a whole record written before or that there is none, and
\* a read of all sessions, by the server or by the dashboard, holds whole
\* records written before, under the ids of sessions only.
C26_AtomicWrites ==
    returned.called =>
        /\ returned.op = "get" =>
              \/ returned.code = 404
              \/ returned.code = 200 /\ returned.data[1] \in WrittenRecords
        /\ returned.op \in {"get_all", "fallback"} =>
              /\ DOMAIN returned.data[1] \subseteq {WrittenId}
              /\ \A session_id \in DOMAIN returned.data[1] :
                    returned.data[1][session_id] \in WrittenRecords

(***************************************************************************)
(* The kill of sessions.  session_launcher.kill_session and                *)
(* StatusClient.delete are not part of the sources at hand: the first is   *)
(* taken to kill the session orch-<id> and to delete its status record,    *)
(* the second to send DELETE /status/<id> and to raise without the server. *)
(***************************************************************************)
\* what stands in the way of a kill: the status server may be down, tmux
\* may be missing, kill_session may raise for some ids, and kill-session
\* may fail for some names (the session ends between has-session and it)
KillEnv(status_up, tmux_absent, raising, stubborn) ==
    [status_up |-> status_up, tmux_absent |-> tmux_absent,
     raising |-> raising, stubborn |-> stubborn]

KillResult(raises, ok, tm, dir) == [raises |-> raises, ok |-> ok, tmux |-> tm, dir |-> dir]

\* session_launcher.kill_session
KillOrchSession(tm, dir, ino, session_id, env) ==
    IF session_id \in env.raising THEN KillResult(TRUE, FALSE, tm, dir)
    ELSE IF env.tmux_absent \/ ("orch-" \o session_id) \notin tm
    THEN KillResult(FALSE, FALSE, tm, dir)
    ELSE KillResult(FALSE, TRUE, tm \ {"orch-" \o session_id},
                    RemoveName(dir, SessionFile(session_id)))

\* StatusClient.delete: the directory after it
StatusClientDelete(dir, ino, session_id, env) ==
    IF env.status_up THEN DeleteStatus(dir, ino, session_id).dir ELSE dir

\* a _kill_tmux_session that does not delete the status record
KillTmuxSessionKeepsRecord(tm, dir, ino, session_id, env) ==
    LET orch == KillOrchSession(tm, dir, ino, session_id, env)
        resolved == ResolveTmuxSession(session_id, IF env.tmux_absent THEN TmuxMissing ELSE TmuxWith(tm))
    IN  IF orch.raises \/ orch.ok THEN orch
        ELSE IF resolved.raises THEN KillResult(TRUE, FALSE, tm, dir)
        ELSE IF ~resolved.found \/ resolved.tmux_session \in env.stubborn
        THEN KillResult(FALSE, FALSE, tm, dir)
        ELSE KillResult(FALSE, TRUE, tm \ {resolved.tmux_session}, dir)

\* _kill_tmux_session
KillTmuxSession(tm, dir, ino, session_id, env) ==
    LET orch == KillOrchSession(tm, dir, ino, session_id, env)
        resolved == ResolveTmuxSession(session_id, IF env.tmux_absent THEN TmuxMissing ELSE TmuxWith(tm))
    IN  IF orch.raises \/ orch.ok THEN orch
        ELSE IF resolved.raises THEN KillResult(TRUE, FALSE, tm, dir)
        ELSE IF ~resolved.found THEN KillResult(FALSE, FALSE, tm, dir)
        ELSE IF resolved.tmux_session \in env.stubborn THEN KillResult(FALSE, FALSE, tm, dir)
        ELSE KillResult(FALSE, TRUE, tm \ {resolved.tmux_session},
                        StatusClientDelete(dir, ino, session_id, env))

KillResponse(op, session_id, code, killed, errors) ==
    [called |-> TRUE, op |-> op, session_id |-> session_id, code |-> code,
     killed |-> killed, errors |-> errors]

\* POST /api/sessions/<session_id>/kill
ApiKillSession(session_id) ==
    LET out == KillTmuxSession(tmux, status_dir, inodes, session_id, args.env)
    IN  /\ tmux' = out.tmux
        /\ status_dir' = out.dir
        /\ returned' = KillResponse("kill", session_id,
                                    IF out.raises THEN 500 ELSE IF out.ok THEN 200 ELSE 404,
                                    <<>>, <<>>)

\* the loop of kill_all over the sessions from index i on
RECURSIVE KillLoop(_, _, _, _, _, _, _, _)
KillLoop(sessions, i, tm, dir, ino, env, killed, errors) ==
    IF i > Len(sessions)
    THEN [tmux |-> tm, dir |-> dir, killed |-> killed, errors |-> errors]
    ELSE LET session_id == sessions[i].id
             out == KillTmuxSession(tm, dir, ino, session_id, env)
         IN  IF out.raises
             THEN KillLoop(sessions, i + 1, tm, dir, ino, env, killed,
                           Append(errors, [id |-> session_id, error |-> "raised"]))
             ELSE IF out.ok
             THEN KillLoop(sessions, i + 1, out.tmux, out.dir, ino, env,
                           Append(killed, session_id), errors)
             ELSE KillLoop(sessions, i + 1, tm, dir, ino, env, killed,
                           Append(errors, [id |-> session_id, error |-> "not found"]))

\* a kill_all whose loop ends with the first exception
RECURSIVE KillLoopUntilRaise(_, _, _, _, _, _, _, _)
KillLoopUntilRaise(sessions, i, tm, dir, ino, env, killed, errors) ==
    IF i > Len(sessions)
    THEN [tmux |-> tm, dir |-> dir, killed |-> killed, errors |-> errors]
    ELSE LET session_id == sessions[i].id
             out == KillTmuxSession(tm, dir, ino, session_id, env)
         IN  IF out.raises
             THEN [tmux |-> tm, dir |-> dir, killed |-> killed,
                   errors |-> Append(errors, [id |-> session_id, error |-> "raised"])]
             ELSE IF out.ok
             THEN KillLoopUntilRaise(sessions, i + 1, out.tmux, out.dir, ino, env,
                                     Append(killed, session_id), errors)
             ELSE KillLoopUntilRaise(sessions, i + 1, tm, dir, ino, env, killed,
                                     Append(errors, [id |-> session_id, error |-> "not found"]))
KillAllUntilRaise(sessions, tm, dir, ino, env) ==
    KillLoopUntilRaise(sessions, 1, tm, dir, ino, env, <<>>, <<>>)

\* kill_all, of the sessions that _list_tmux_sessions gave
KillAll(sessions, tm, dir, ino, env) == KillLoop(sessions, 1, tm, dir, ino, env, <<>>, <<>>)

\* the lines of list-sessions for the sessions of tmux, in an order
ListingOf(order) == [i \in 1..Len(order) |-> order[i] \o "|1|600|1"]
Orders(S) == {order \in [1..Cardinality(S) -> S] : \A i, j \in 1..Len(order) : order[i] = order[j] => i = j}

\* POST /api/sessions/kill-all
ApiKillAll ==
    \E order \in Orders(tmux) :
        LET listed == ListTmuxSessions(IF args.env.tmux_absent THEN TmuxAbsent
                                       ELSE TmuxAnswers(ListingOf(order)))
            out == KillAll(listed.sessions, tmux, status_dir, inodes, args.env)
        IN  IF listed.raises
            THEN /\ returned' = KillResponse("kill_all", "", 500, <<>>, <<>>)
                 /\ UNCHANGED <<tmux, status_dir, args>>
            ELSE /\ tmux' = out.tmux
                 /\ status_dir' = out.dir
                 /\ returned' = KillResponse("kill_all", "", 200, out.killed, out.errors)
                 /\ args' = [args EXCEPT !.enumerated = listed.sessions]

(***************************************************************************)
(* The kills, one request: args holds what stands in the way and, after a  *)
(* kill-all, the sessions it enumerated.                                   *)
(***************************************************************************)
KillNames == {"orch-a", "a", "b", "a-b"}
KillIds == {"a", "b", "a.b"}
RecordedIds == {"a", "b"}

KillEnvs ==
    {KillEnv(up, absent, raising, stubborn) :
        up \in BOOLEAN, absent \in BOOLEAN, raising \in {{}, {"a"}}, stubborn \in {{}, {"b"}}}

InitKill ==
    /\ queue = [s \in StateSet |-> EmptyDir]
    /\ resp = Response("none", "", 0, "", "")
    /\ arrival = EmptyDir
    /\ clock = FirstTick
    /\ calls = NoCalls
    /\ tmux \in SUBSET KillNames
    /\ \E recorded \in SUBSET RecordedIds :
          status_dir = [n \in {SessionFile(id) : id \in recorded} |->
                           IF n = SessionFile("a") THEN 1 ELSE 2]
    /\ inodes = <<Whole(RecordBefore), Whole(RecordBefore)>>
    /\ \E env \in KillEnvs : args = [fn |-> "kill", env |-> env, enumerated |-> <<>>]
    /\ returned = NoReturn

NextKill ==
    /\ ~returned.called
    /\ UNCHANGED <<queue, resp, arrival, clock, calls, inodes>>
    /\ \/ \E session_id \in KillIds : ApiKillSession(session_id) /\ UNCHANGED args
       \/ ApiKillAll

SpecKill == InitKill /\ [][NextKill]_vars

\* C27: after a kill of a session id answered success, the status store
\* holds no record of that id.
C27_RecordDeleted ==
    returned.called /\ returned.op = "kill" /\ returned.code = 200
        => SessionFile(returned.session_id) \notin DOMAIN status_dir

\* how often an id is among the enumerated sessions, the killed, the errors
TimesIn(seq, field, session_id) ==
    Cardinality({i \in 1..Len(seq) : (IF field THEN seq[i].id ELSE seq[i]) = session_id})

\* C28: a kill-all that answers lists every session it enumerated exactly
\* once, among the killed or among the errors, and a session that fails or
\* raises does not keep it from the others: a session that nothing stands
\* in the way of is gone afterwards.
C28_KillAllContinues ==
    returned.called /\ returned.op = "kill_all" /\ returned.code = 200 =>
        /\ Len(returned.killed) + Len(returned.errors) = Len(args.enumerated)
        /\ \A i \in 1..Len(args.enumerated) :
              LET session_id == args.enumerated[i].id
              IN  TimesIn(returned.killed, FALSE, session_id)
                  + TimesIn(returned.errors, TRUE, session_id)
                  = TimesIn(args.enumerated, TRUE, session_id)
        /\ \A i \in 1..Len(args.enumerated) :
              /\ args.enumerated[i].id \notin args.env.raising
              /\ args.enumerated[i].tmux_name \notin args.env.stubborn
              => args.enumerated[i].tmux_name \notin tmux

\* a kill-all went on after the kill of its first session raised and after
\* the kill of another failed, and killed a session after them
C28_Witness ==
    /\ returned.called /\ returned.op = "kill_all" /\ returned.code = 200
    /\ Len(args.enumerated) = 3
    /\ args.enumerated[1].id \in args.env.raising
    /\ args.enumerated[2].tmux_name \in args.env.stubborn
    /\ returned.killed = <<args.enumerated[3].id>>
    /\ Len(returned.errors) = 2
    /\ args.enumerated[3].tmux_name \notin tmux

(***************************************************************************)
(* Two requests on one task, step by step: every path.exists(), every      *)
(* shutil.move and the touch after it is a step of its own.                *)
(***************************************************************************)
Callers == {"c1", "c2"}
RacedTask == "task-1"
RacedContent == <<<<"#", "Task:", "race">>, <<"**Agent:**", "codex">>>>

\* the requests: launch, block, or move to a state
RaceRequests ==
    {[op |-> "launch", to |-> "in-progress"], [op |-> "block", to |-> "blocked"]}
    \cup {[op |-> "move", to |-> to] : to \in {"pending", "blocked", "completed"}}

\* pc: the step a call has come to; k: the state its scan has come to; src:
\* the state it found the file in; renamed: how its shutil.move ended
RaceCall(request, pc, k, src, code, renamed) ==
    [op |-> request.op, to |-> request.to, pc |-> pc, k |-> k, src |-> src,
     code |-> code, renamed |-> renamed]
Ended(call, code) == [call EXCEPT !.pc = "done", !.code = code]

InitRace ==
    /\ \E state \in {"pending", "in-progress"} :
          queue = WriteText([s \in StateSet |-> EmptyDir], state, RacedTask, RacedContent, FirstTick)
    /\ tmux = {}
    /\ clock = FirstTick + 1
    /\ resp = Response("none", "", 0, "", "")
    /\ arrival = EmptyDir
    /\ status_dir = NoFiles
    /\ inodes = NoFiles
    /\ args = [fn |-> "race", task_id |-> RacedTask]
    /\ returned = NoReturn
    /\ \E requests \in [Callers -> RaceRequests] :
          calls = [c \in Callers |->
                      RaceCall(requests[c], IF requests[c].op = "move" THEN "scan" ELSE "check", 1,
                               "", 0, "none")]

\* pending_path.exists() of _launch_task and of api_block_task
CheckPending(c) ==
    /\ calls[c].pc = "check"
    /\ calls' = [calls EXCEPT ![c] =
          IF Exists(queue, "pending", args.task_id)
          THEN [@ EXCEPT !.pc = "rename", !.src = "pending"]
          ELSE IF @.op = "block" THEN Ended(@, 404)
          ELSE [@ EXCEPT !.pc = "check2"]]
    /\ UNCHANGED <<queue, tmux>>

\* in_progress_path.exists() of _launch_task
CheckInProgress(c) ==
    /\ calls[c].pc = "check2"
    /\ calls' = [calls EXCEPT ![c] =
          IF Exists(queue, "in-progress", args.task_id)
          THEN [@ EXCEPT !.pc = "read"] ELSE Ended(@, 404)]
    /\ UNCHANGED <<queue, tmux>>

\* one path.exists() of the loop of api_move_task
Scan(c) ==
    /\ calls[c].pc = "scan"
    /\ LET call == calls[c]
           state == States[call.k]
       IN  calls' = [calls EXCEPT ![c] =
              IF Exists(queue, state, args.task_id)
              THEN IF state = call.to THEN Ended(call, 200)
                   ELSE [call EXCEPT !.pc = "rename", !.src = state]
              ELSE IF call.k = Len(States) THEN Ended(call, 404)
              ELSE [call EXCEPT !.k = call.k + 1]]
    /\ UNCHANGED <<queue, tmux>>

\* shutil.move(src, dst): raises when the source is gone, and the handler
\* answers 500
Rename(c) ==
    /\ calls[c].pc = "rename"
    /\ IF Exists(queue, calls[c].src, args.task_id)
       THEN /\ queue' = ShutilMove(queue, calls[c].src, calls[c].to, args.task_id)
            /\ calls' = [calls EXCEPT ![c] =
                  IF @.op = "launch" THEN [@ EXCEPT !.pc = "read", !.renamed = "ok"]
                  ELSE IF @.op = "move" THEN [@ EXCEPT !.pc = "touch", !.renamed = "ok"]
                  ELSE [Ended(@, 200) EXCEPT !.renamed = "ok"]]
       ELSE /\ calls' = [calls EXCEPT ![c] = [Ended(@, 500) EXCEPT !.renamed = "failed"]]
            /\ UNCHANGED queue
    /\ UNCHANGED tmux

\* target_path.touch() of api_move_task: creates the file when there is none
TouchTarget(c) ==
    /\ calls[c].pc = "touch"
    /\ queue' = IF Exists(queue, calls[c].to, args.task_id)
                THEN Touch(queue, calls[c].to, args.task_id, clock)
                ELSE WriteText(queue, calls[c].to, args.task_id, <<>>, clock)
    /\ calls' = [calls EXCEPT ![c] = Ended(@, 200)]
    /\ UNCHANGED tmux

\* the rest of _launch_task: spec_path.read_text() raises when the file is
\* gone; then the agent, the command and tmux new-session
ReadAndStart(c) ==
    /\ calls[c].pc = "read"
    /\ IF ~Exists(queue, "in-progress", args.task_id)
       THEN /\ calls' = [calls EXCEPT ![c] = Ended(@, 500)]
            /\ UNCHANGED tmux
       ELSE LET here == [s \in StateSet |->
                            IF s = "in-progress" THEN queue[s] ELSE EmptyDir]
                out == LaunchTask(here, tmux, args.task_id, "")
            IN  /\ calls' = [calls EXCEPT ![c] = Ended(@, out.code)]
                /\ tmux' = out.tmux
    /\ UNCHANGED queue

NextRace ==
    /\ clock' = clock + 1
    /\ UNCHANGED <<resp, arrival, status_dir, inodes, args, returned>>
    /\ \/ \E c \in Callers : CheckPending(c)
       \/ \E c \in Callers : CheckInProgress(c)
       \/ \E c \in Callers : Scan(c)
       \/ \E c \in Callers : Rename(c)
       \/ \E c \in Callers : TouchTarget(c)
       \/ \E c \in Callers : ReadAndStart(c)

SpecRace == InitRace /\ [][NextRace]_vars

\* C29: when two requests on one task have ended, the task is in exactly
\* one state directory, with its content; a caller whose rename found the
\* file gone has received 404 (not found), no caller an error of the
\* server; and of two callers that went for the same file one renamed it.
C29_ConcurrentTransitions ==
    (\A c \in Callers : calls[c].pc = "done") =>
        /\ Cardinality(StatesOf(queue, args.task_id)) = 1
        /\ \A s \in StatesOf(queue, args.task_id) : queue[s][args.task_id].content = RacedContent
        /\ \A c \in Callers :
              /\ calls[c].code # 500
              /\ calls[c].renamed = "failed" => calls[c].code = 404

(***************************************************************************)
(* A launch that fails after the move.                                     *)
(***************************************************************************)
\* the launch answered with a failure of the agent, the command or the session
LaunchFailed(r) == r.op = "launch" /\ r.code \in {400, 500}

\* C30: a launch of a pending task that fails for a missing agent, an
\* unknown agent or the creation of the session leaves the task's file in
\* in-progress, as it was in pending, and no longer in pending, and creates
\* no session: the move is made before the checks and is not undone.
C30_FailedLaunchNotRolledBack ==
    [][(LaunchFailed(resp') /\ Exists(queue, "pending", resp'.id)) =>
          /\ ~Exists(queue', "pending", resp'.id)
          /\ Exists(queue', "in-progress", resp'.id)
          /\ queue'["in-progress"][resp'.id] = queue["pending"][resp'.id]
          /\ tmux' = tmux]_vars

\* the second request was a launch that failed, of the task the first
\* request created in pending: the file is in in-progress, without a session
C30_Witness ==
    /\ clock = FirstTick + 2
    /\ LaunchFailed(resp)
    /\ Exists(queue, "in-progress", resp.id)
    /\ ~Exists(queue, "pending", resp.id)
    /\ tmux = {}

(***************************************************************************)
(* A transition of a task interleaved with a delete or an in-place rewrite *)
(* of the same task, step by step: the mover goes through the steps of     *)
(* the transitions above, the other caller through every path.exists(),    *)
(* the unlink, the read_text and the write_text of its handler.            *)
(***************************************************************************)
Mover == "c1"
Other == "c2"
RewrittenContent ==
    <<<<"#", "Task:", "race">>, <<"**Priority:**", "P2">>, <<"**Agent:**", "codex">>>>

\* delete, update with a content, or set_priority with a priority
OtherRequests ==
    {[op |-> "delete", data |-> ""]}
    \cup {[op |-> "update", data |-> <<<<"#", "Task:", "new">>, <<"**Agent:**", "codex">>>>]}
    \cup {[op |-> "priority", data |-> p] : p \in {"P0", ""}}

\* content: what read_text returned, rewritten; during: the step the mover
\* had come to when the file was unlinked; lost: the file found by
\* path.exists() was gone when it was read or written
OtherCall(request) ==
    [op |-> request.op, to |-> "", pc |-> "validate", k |-> 1, src |-> "", code |-> 0,
     renamed |-> "none", data |-> request.data, content |-> <<>>, during |-> "",
     lost |-> FALSE]

InitInterleave ==
    /\ \E state \in {"pending", "in-progress"} :
          queue = WriteText([s \in StateSet |-> EmptyDir], state, RacedTask,
                            RewrittenContent, FirstTick)
    /\ tmux = {}
    /\ clock = FirstTick + 1
    /\ resp = Response("none", "", 0, "", "")
    /\ arrival = EmptyDir
    /\ status_dir = NoFiles
    /\ inodes = NoFiles
    /\ args = [fn |-> "interleave", task_id |-> RacedTask]
    /\ returned = NoReturn
    /\ \E move \in RaceRequests, other \in OtherRequests :
          calls = [c \in Callers |->
                      IF c = Mover
                      THEN RaceCall(move, IF move.op = "move" THEN "scan" ELSE "check", 1,
                                    "", 0, "none")
                      ELSE OtherCall(other)]

\* the checks of the body: api_set_priority answers 400 without a priority
Validate(c) ==
    /\ calls[c].pc = "validate"
    /\ calls' = [calls EXCEPT ![c] =
          IF calls[c].op = "priority" /\ NormalizePriority(calls[c].data, "") = ""
          THEN Ended(calls[c], 400) ELSE [calls[c] EXCEPT !.pc = "find"]]
    /\ UNCHANGED <<queue, tmux>>

\* one path.exists() of the loop of api_delete_task, api_update_task and
\* api_set_priority
Find(c) ==
    /\ calls[c].pc = "find"
    /\ LET call == calls[c]
           state == States[call.k]
           next == IF call.op = "delete" THEN "unlink"
                   ELSE IF call.op = "update" THEN "write" ELSE "read"
       IN  calls' = [calls EXCEPT ![c] =
              IF Exists(queue, state, args.task_id)
              THEN [call EXCEPT !.pc = next, !.src = state]
              ELSE IF call.k = Len(States) THEN Ended(call, 404)
              ELSE [call EXCEPT !.k = call.k + 1]]
    /\ UNCHANGED <<queue, tmux>>

\* path.unlink() of api_delete_task: raises when the file is gone
UnlinkFile(c) ==
    /\ calls[c].pc = "unlink"
    /\ IF Exists(queue, calls[c].src, args.task_id)
       THEN /\ queue' = Unlink(queue, calls[c].src, args.task_id)
            /\ calls' = [calls EXCEPT ![c] =
                  [Ended(calls[c], 200) EXCEPT !.during = calls[Mover].pc]]
       ELSE /\ calls' = [calls EXCEPT ![c] = Ended(calls[c], 500)]
            /\ UNCHANGED queue
    /\ UNCHANGED tmux

\* path.read_text() and re.subn of api_set_priority
ReadFile(c) ==
    /\ calls[c].pc = "read"
    /\ IF ~Exists(queue, calls[c].src, args.task_id)
       THEN calls' = [calls EXCEPT ![c] = [Ended(calls[c], 500) EXCEPT !.lost = TRUE]]
       ELSE LET sub == RewritePriority(queue[calls[c].src][args.task_id].content,
                                       NormalizePriority(calls[c].data, ""))
            IN  calls' = [calls EXCEPT ![c] =
                   IF sub.count = 0 THEN Ended(calls[c], 400)
                   ELSE [calls[c] EXCEPT !.pc = "write", !.content = sub.content]]
    /\ UNCHANGED <<queue, tmux>>

\* path.write_text(...) of api_update_task and api_set_priority: creates the
\* file when there is none
WriteFile(c) ==
    /\ calls[c].pc = "write"
    /\ queue' = WriteText(queue, calls[c].src, args.task_id,
                          IF calls[c].op = "update" THEN calls[c].data ELSE calls[c].content,
                          clock)
    /\ calls' = [calls EXCEPT ![c] =
          [Ended(calls[c], 200) EXCEPT !.lost = ~Exists(queue, calls[c].src, args.task_id)]]
    /\ UNCHANGED tmux

NextInterleave ==
    /\ clock' = clock + 1
    /\ UNCHANGED <<resp, arrival, status_dir, inodes, args, returned>>
    /\ \/ CheckPending(Mover)
       \/ CheckInProgress(Mover)
       \/ Scan(Mover)
       \/ Rename(Mover)
       \/ TouchTarget(Mover)
       \/ ReadAndStart(Mover)
       \/ Validate(Other)
       \/ Find(Other)
       \/ UnlinkFile(Other)
       \/ ReadFile(Other)
       \/ WriteFile(Other)

SpecInterleave == InitInterleave /\ [][NextInterleave]_vars

BothReturned == \A c \in Callers : calls[c].pc = "done"

\* C31: when a delete has answered success, having unlinked the file while
\* a move of the same task was between its rename and its touch, then after
\* both calls have returned the task has no file in any state directory.
C31_DeleteFinal ==
    (/\ BothReturned
     /\ calls[Other].op = "delete" /\ calls[Other].code = 200
     /\ calls[Mover].op = "move" /\ calls[Other].during = "touch")
        => StatesOf(queue, args.task_id) = {}

\* C32: when the rename of a transition (move, launch, block) took the
\* file away between the existence check or the read of an in-place
\* rewrite (update, set_priority) and its write, then after both calls have
\* returned the task has exactly one file, in the target directory of the
\* transition.
C32_RewriteKeepsSingleCopy ==
    (/\ BothReturned
     /\ calls[Other].op \in {"update", "priority"} /\ calls[Other].lost
     /\ calls[Mover].renamed = "ok")
        => StatesOf(queue, args.task_id) = {calls[Mover].to}

(***************************************************************************)
(* Launches of two tasks whose ids generate_task_id produced.              *)
(***************************************************************************)
LaunchTitles == {"Fix bug", "Add tests", "Fix  Bug!", ""}
\* the ticks of the two creations: two of one second and one of the next
CreationTicks == {FirstTick + 1, FirstTick + 2, FirstTick + 3}

LaunchableContent(title) == <<<<"#", "Task:", title>>, <<"**Agent:**", "codex">>>>

\* the session name _launch_task gives the task
SessionNameOf(task_id) == SafeTmuxSessionName(DeriveSessionId(task_id))

\* args.launched: the tasks whose launch started a session
InitLaunches ==
    /\ \E title1, title2 \in LaunchTitles, t1, t2 \in CreationTicks :
          LET id1 == GenerateTaskIdAt(title1, t1)
              id2 == GenerateTaskIdAt(title2, t2)
          IN  /\ t1 <= t2
              /\ id1 # id2
              /\ queue = WriteText(WriteText([s \in StateSet |-> EmptyDir], "pending", id1,
                                             LaunchableContent(title1), t1),
                                   "pending", id2, LaunchableContent(title2), t2)
    /\ tmux = {}
    /\ clock = FirstTick + 4
    /\ resp = Response("none", "", 0, "", "")
    /\ arrival = EmptyDir
    /\ status_dir = NoFiles
    /\ inodes = NoFiles
    /\ calls = NoCalls
    /\ args = [fn |-> "launch", launched |-> {}]
    /\ returned = NoReturn

Launch(task_id) ==
    /\ ApiLaunchTask(task_id, "")
    /\ args' = [args EXCEPT !.launched = IF resp'.code = 200 THEN @ \cup {task_id} ELSE @]
    /\ UNCHANGED <<clock, status_dir, inodes, calls, returned>>

SpecLaunches == InitLaunches /\ [][\E id \in AllIds(queue) : Launch(id)]_vars

\* C33: two different task ids of generate_task_id have different session
\* names, and a launch is refused for a duplicate session name only when
\* the session is the one an earlier launch of the same task started.
C33_DistinctSessions ==
    /\ \A id1, id2 \in AllIds(queue) : id1 # id2 => SessionNameOf(id1) # SessionNameOf(id2)
    /\ (resp.op = "launch" /\ resp.code = 500) => resp.id \in args.launched

(***************************************************************************)
(* The ids _list_tmux_sessions gives the sessions, resolved again by       *)
(* _resolve_tmux_session while the same sessions are alive.                *)
(***************************************************************************)
\* the sessions alive at once
MaxListed == 3
ListedNames == {"orch-x", "x", "orch-orch-x", "y z", "y-z", "task-20240101-001", "orch-b_1"}

InitListing ==
    /\ queue = [s \in StateSet |-> EmptyDir]
    /\ resp = Response("none", "", 0, "", "")
    /\ arrival = EmptyDir
    /\ clock = FirstTick
    /\ calls = NoCalls
    /\ status_dir = NoFiles
    /\ inodes = NoFiles
    /\ tmux \in {alive \in SUBSET ListedNames : Cardinality(alive) \in 1..MaxListed}
    /\ \E order \in Orders(tmux) : args = [fn |-> "list_and_resolve", order |-> order]
    /\ returned = NoReturn

\* _list_tmux_sessions, then _resolve_tmux_session of every id of the list
ListAndResolve ==
    /\ ~returned.called
    /\ LET listed == ListTmuxSessions(TmuxAnswers(ListingOf(args.order))).sessions
       IN  returned' = [called |-> TRUE, sessions |-> listed,
                        resolved |-> [i \in 1..Len(listed) |->
                                         ResolveTmuxSession(listed[i].id, TmuxWith(tmux))]]
    /\ UNCHANGED <<args, StoreVars>>

SpecListing == InitListing /\ [][ListAndResolve]_vars

\* C34: the ids of the listed sessions are pairwise distinct, and the id of
\* every listed session resolves to the tmux name of that session.
C34_ListingResolves ==
    returned.called =>
        /\ \A i, j \in 1..Len(returned.sessions) :
              i # j => returned.sessions[i].id # returned.sessions[j].id
        /\ \A i \in 1..Len(returned.sessions) :
              returned.resolved[i] = Resolved(returned.sessions[i].tmux_name)

====
